---- MODULE Spec2Model ----
(***************************************************************************)
(* Sprite compositing engines (metz-sprite-engine and retro-rpg-sprites).  *)
(*                                                                         *)
(* Python values are modelled as tagged records:                           *)
(*   None      [t |-> "None"]                                              *)
(*   str       [t |-> "str",  s |-> <<characters>>]                        *)
(*   int       [t |-> "int",  n |-> number]                                *)
(*   dict      [t |-> "dict", m |-> function from keys to values]          *)
(* A Python string is the sequence of its characters, so that split,       *)
(* lstrip and int(.., 16) are computed rather than assumed.                *)
(* A template document is a TLA+ record whose DOMAIN is the set of keys    *)
(* present in the JSON document; absent keys are absent from the DOMAIN.   *)
(***************************************************************************)
EXTENDS Integers, Sequences, FiniteSets, TLC

VARIABLES
    op,            \* name of the last engine function that ran ("" before any)
    palette,       \* palette argument of the resolve / render call
    dot_key,       \* resolve_color: the key argument
    hex_colour,    \* resolve_color: the value returned
    template,      \* template document argument
    direction,     \* direction argument
    frame_name,    \* frame name argument
    z,             \* get_z_order: the value returned
    pixels,        \* render_frame: the flat RGBA buffer returned
    dir_data,      \* _get_direction_data: the frames mapping returned, or None
    frame,         \* mirror_util: the grid being flipped
    original,      \* mirror_util: the grid before any flip
    mirrors,       \* mirror_util: number of mirror_frame calls applied to frame
    base_dir,      \* compositors: the template and palette documents on disk
    request,       \* compositors: the loadout or NPC definition
    layers,        \* compositors: loaded (template, palette) pairs, request order
    walk_cycle,    \* compositors: the frame names composited
    canvas,        \* compositors: <<width, height>> of the composite images
    painted,       \* compositors: per direction, positions in layers in paint order
    frames_dict,   \* compositors: per direction, the composited frames
    raised,        \* compositors: the exception that ended the call, "" if none
    scale,         \* exporters: the upscale factor argument
    sheet,         \* exporters: the static sheet image built
    gif,           \* exporters: the animated file written, or None
    doll,          \* export_paper_doll: the cells of the strip, left to right
    stores,        \* exporters: what the call loaded from base_dir
    _batch_counter,  \* batch_generator: the module-level id counter
    random_state,  \* the state of the shared generator of module random
    history,       \* batch_generator: the calls made so far, with what they returned
    expanded,      \* mirror_util: the document add_right_direction / expand_template produced, or None
    expanded_pixels,  \* render_frame of direction right on the expanded document
    verified,      \* verify_mirror: the value returned, None before the call
    lookup_id,     \* template lookup: the template_id asked for
    lookups,       \* template lookup: what each lookup function called so far returned
    all_sheets,    \* batch_export: the sheets of the NPCs rendered so far
    mega,          \* _create_mega_sheet: the image returned, or None
    saved,         \* the files written, by kind, in the order they were saved
    npc_idx        \* batch_export: how many definitions the loop has handled

resolveVars == <<palette, dot_key, hex_colour>>

renderVars == <<template, direction, frame_name, z, pixels, dir_data>>

mirrorVars == <<frame, original, mirrors>>

compVars ==
    <<base_dir, request, layers, walk_cycle, canvas, painted, frames_dict, raised>>

exportVars == <<scale, sheet, gif, doll, stores>>

batchVars == <<_batch_counter, random_state, history>>

utilVars == <<expanded, expanded_pixels, verified>>

lookupVars == <<lookup_id, lookups>>

megaVars == <<all_sheets, mega, saved, npc_idx>>

vars ==
    <<op, resolveVars, renderVars, mirrorVars, compVars, exportVars, batchVars, utilVars,
      lookupVars, megaVars>>

\* ------------------------------------------------------------------ bounds

\* Longest palette key (in characters) handed to resolve_color.
MaxKeyLen == 3

\* Largest declared width and height of a template whose grid is drawn freely.
MaxDim == 2

\* Most rows, and most cells in a row, of a freely drawn grid; both exceed
\* the smallest declared size, so that grids overflow as well as fall short.
MaxRows == 2

MaxCols == 2

\* Most cells (width * height) of a grid drawn over the full cell alphabet.
MaxCells == 2

\* ------------------------------------------------------------ Python values

PyNone == [t |-> "None"]

PyStr(s) == [t |-> "str", s |-> s]

PyInt(n) == [t |-> "int", n |-> n]

PyDict(m) == [t |-> "dict", m |-> m]

\* All sequences over S of length at most n.
SeqsUpTo(S, n) == UNION {[1..k -> S] : k \in 0..n}

Range(s) == {s[i] : i \in DOMAIN s}

\* ----------------------------------------------------- str.split(".")

RECURSIVE split(_)
\* dot_key.split("."): every "." separates; empty segments are kept.
split(s) ==
    IF \A i \in 1..Len(s) : s[i] # "."
    THEN <<s>>
    ELSE LET i == CHOOSE j \in 1..Len(s) :
                      s[j] = "." /\ \A k \in 1..(j - 1) : s[k] # "."
         IN  <<SubSeq(s, 1, i - 1)>> \o split(SubSeq(s, i + 1, Len(s)))

\* ------------------------------------------------------- resolve_color

RECURSIVE resolve_walk_nocheck(_, _, _)
\* The walk without the final isinstance(current, str) test.
resolve_walk_nocheck(current, parts, i) ==
    IF i > Len(parts)
    THEN current
    ELSE IF current.t # "dict" \/ parts[i] \notin DOMAIN current.m
         THEN PyNone
         ELSE resolve_walk_nocheck(current.m[parts[i]], parts, i + 1)

RECURSIVE resolve_walk(_, _, _)
\* The for-loop of resolve_color from segment i on, then the final test.
resolve_walk(current, parts, i) ==
    IF i > Len(parts)
    THEN IF current.t = "str" THEN current ELSE PyNone
    ELSE IF current.t # "dict" \/ parts[i] \notin DOMAIN current.m
         THEN PyNone
         ELSE resolve_walk(current.m[parts[i]], parts, i + 1)

\* resolve_color(palette, dot_key): the str reached, or None.
resolve_color(pal, key) == resolve_walk(pal, split(key), 1)

\* -------------------------------------------------- inputs: palettes, keys

HexA == <<"#", "F", "0", "C", "0", "8", "0">>

HexB == <<"#", "1", "a", "2", "B", "f", "f">>

KeyChars == {"a", "b", "."}

Keys == SeqsUpTo(KeyChars, MaxKeyLen)

Segments == {<<"a">>, <<"b">>}

\* Values that are neither a mapping nor a group: a colour, or a stray number.
Leaves == {PyStr(HexA), PyInt(7)}

Groups == {PyDict(m) : m \in UNION {[S -> Leaves] : S \in SUBSET Segments}}

NestedPalettes ==
    {PyDict(m) : m \in UNION {[S -> Leaves \cup Groups] : S \in SUBSET Segments}}
    \cup Leaves

\* ---------------------------------------------------------- get_z_order

\* dict.get(key, default) on a document.
get(doc, key, default) == IF key \in DOMAIN doc THEN doc[key] ELSE default

\* get_z_order that only reads the base z_order.
get_z_order_base(tmpl, dir) == get(tmpl, "z_order", 0)

\* get_z_order(template, direction)
get_z_order(tmpl, dir) ==
    LET overrides == get(tmpl, "z_order_override", <<>>)
    IN  IF dir \in DOMAIN overrides
        THEN overrides[dir]
        ELSE get(tmpl, "z_order", 0)

\* ------------------------------------------------------------ hex_to_rgba

TRANSPARENT == <<0, 0, 0, 0>>

\* Value of one hexadecimal digit, as int(.., 16) reads it.
hex_digit(c) ==
    CASE c = "0" -> 0 [] c = "1" -> 1 [] c = "2" -> 2 [] c = "3" -> 3
      [] c = "4" -> 4 [] c = "5" -> 5 [] c = "6" -> 6 [] c = "7" -> 7
      [] c = "8" -> 8 [] c = "9" -> 9
      [] c \in {"a", "A"} -> 10 [] c \in {"b", "B"} -> 11
      [] c \in {"c", "C"} -> 12 [] c \in {"d", "D"} -> 13
      [] c \in {"e", "E"} -> 14 [] c \in {"f", "F"} -> 15

RECURSIVE int16(_)
\* int(s, 16) for a non-empty string of hexadecimal digits.
int16(s) ==
    IF Len(s) = 1
    THEN hex_digit(s[1])
    ELSE 16 * int16(SubSeq(s, 1, Len(s) - 1)) + hex_digit(s[Len(s)])

RECURSIVE lstrip(_, _)
\* s.lstrip(c): every leading c removed.
lstrip(s, c) ==
    IF s # <<>> /\ s[1] = c THEN lstrip(Tail(s), c) ELSE s

\* s[a:b] for 0 <= a <= b.
slice(s, a, b) == SubSeq(s, a + 1, IF b < Len(s) THEN b ELSE Len(s))

\* hex_to_rgba with the green and blue bytes read from each other's place.
hex_to_rgba_swapped(hex_str) ==
    LET h == lstrip(hex_str, "#")
    IN  <<int16(slice(h, 0, 2)), int16(slice(h, 4, 6)), int16(slice(h, 2, 4)), 255>>

\* hex_to_rgba(hex_str): "#RRGGBB" to (R, G, B, 255).
hex_to_rgba(hex_str) ==
    LET h == lstrip(hex_str, "#")
    IN  <<int16(slice(h, 0, 2)), int16(slice(h, 2, 4)), int16(slice(h, 4, 6)), 255>>

\* ----------------------------------------------------------- render_frame

\* str(value) for a str or a one-digit int cell.
str(value) ==
    IF value.t = "str"
    THEN value.s
    ELSE <<CHOOSE c \in {"0", "1", "2", "3", "4", "5", "6", "7", "8", "9"} :
               hex_digit(c) = value.n>>

\* [x] * n
repeat(x, n) == [i \in 1..n |-> x]

\* s[::-1]
reversed(s) == [i \in 1..Len(s) |-> s[Len(s) + 1 - i]]

RECURSIVE concat(_)
\* The rows appended one after the other (pixels.extend(row_pixels)).
concat(rows) ==
    IF rows = <<>> THEN <<>> ELSE rows[1] \o concat(Tail(rows))

\* "Pad or trim row to expected width."
fit_width(row_pixels, width) ==
    IF Len(row_pixels) < width
    THEN row_pixels \o repeat(TRANSPARENT, width - Len(row_pixels))
    ELSE IF Len(row_pixels) > width
         THEN SubSeq(row_pixels, 1, width)
         ELSE row_pixels

\* "Pad remaining rows", then pixels[:total].
fit_total(px, total) ==
    LET padded == IF Len(px) < total
                  THEN px \o repeat(TRANSPARENT, total - Len(px))
                  ELSE px
    IN  SubSeq(padded, 1, total)

\* Metz default frame size.
MetzDefaultSize == <<48, 48>>

\* Retro default frame size.
RetroDefaultSize == <<16, 24>>

\* "Determine frame dimensions": size, else dimensions, else the default.
frame_size(tmpl, default) ==
    IF "size" \in DOMAIN tmpl
    THEN tmpl.size
    ELSE IF "dimensions" \in DOMAIN tmpl
         THEN <<tmpl.dimensions.width, tmpl.dimensions.height>>
         ELSE default

\* mirror = True
is_mirrored(tmpl, dir) ==
    dir = "right" /\ get(tmpl, "mirror_right_from_left", FALSE)

\* "Determine the source direction for pixel data."  An explicit "right"
\* entry is not consulted.
source_direction(tmpl, dir) == IF is_mirrored(tmpl, dir) THEN "left" ELSE dir

\* metz_cell that paints an unresolved key opaque black.
metz_cell_opaque(pal, value) ==
    IF value = PyInt(0) \/ value = PyStr(<<"0">>) \/ value = PyNone
    THEN TRANSPARENT
    ELSE LET hex == resolve_color(pal, str(value))
         IN  IF hex = PyNone THEN <<0, 0, 0, 255>> ELSE hex_to_rgba(hex.s)

\* One cell of the metz engine: the sentinel, or the resolved colour, or
\* transparent for an unresolved key.  colour_cache only memoises this.
metz_cell(pal, value) ==
    IF value = PyInt(0) \/ value = PyStr(<<"0">>) \/ value = PyNone
    THEN TRANSPARENT
    ELSE LET hex == resolve_color(pal, str(value))
         IN  IF hex = PyNone THEN TRANSPARENT ELSE hex_to_rgba(hex.s)

\* One cell of the retro engine: palette_colors.get(value).
retro_cell(pal, value) ==
    IF value = PyInt(0) \/ value = PyStr(<<"0">>)
    THEN TRANSPARENT
    ELSE LET hex == IF pal.t = "dict" /\ value.t = "str" /\ value.s \in DOMAIN pal.m
                    THEN pal.m[value.s]
                    ELSE PyNone
         IN  IF hex = PyNone THEN TRANSPARENT ELSE hex_to_rgba(hex.s)

\* The row loop of the metz render_frame: resolve, fit to width, then flip.
metz_rows(pixel_grid, pal, width, mirror) ==
    [r \in 1..Len(pixel_grid) |->
        LET row_pixels == [c \in 1..Len(pixel_grid[r]) |-> metz_cell(pal, pixel_grid[r][c])]
            fitted == fit_width(row_pixels, width)
        IN  IF mirror THEN reversed(fitted) ELSE fitted]

\* The row loop of the retro render_frame.
retro_rows(pixel_grid, pal, width, mirror) ==
    [r \in 1..Len(pixel_grid) |->
        LET row_pixels == [c \in 1..Len(pixel_grid[r]) |-> retro_cell(pal, pixel_grid[r][c])]
            fitted == fit_width(row_pixels, width)
        IN  IF mirror THEN reversed(fitted) ELSE fitted]

\* render_frame that returns the rows it built without the final
\* padding and pixels[:total].
render_frame_unfitted(tmpl, pal, dir, fname) ==
    LET size == frame_size(tmpl, MetzDefaultSize)
        src == source_direction(tmpl, dir)
        directions == get(tmpl, "directions", <<>>)
    IN  IF src \notin DOMAIN directions
        THEN repeat(TRANSPARENT, size[1] * size[2])
        ELSE IF fname \notin DOMAIN directions[src]
             THEN repeat(TRANSPARENT, size[1] * size[2])
             ELSE concat(metz_rows(directions[src][fname], pal, size[1],
                                   is_mirrored(tmpl, dir)))

\* render_frame that looks the frame up in the requested direction when the
\* mirror source is absent.
render_frame_fallback(tmpl, pal, dir, fname) ==
    LET size == frame_size(tmpl, MetzDefaultSize)
        directions == get(tmpl, "directions", <<>>)
        src == IF source_direction(tmpl, dir) \in DOMAIN directions
               THEN source_direction(tmpl, dir)
               ELSE dir
    IN  IF src \notin DOMAIN directions
        THEN repeat(TRANSPARENT, size[1] * size[2])
        ELSE IF fname \notin DOMAIN directions[src]
             THEN repeat(TRANSPARENT, size[1] * size[2])
             ELSE fit_total(concat(metz_rows(directions[src][fname], pal, size[1],
                                             is_mirrored(tmpl, dir))),
                            size[1] * size[2])

\* render_frame(template, palette, direction, frame_name) of the metz engine.
render_frame(tmpl, pal, dir, fname) ==
    LET size == frame_size(tmpl, MetzDefaultSize)
        src == source_direction(tmpl, dir)
        directions == get(tmpl, "directions", <<>>)
    IN  IF src \notin DOMAIN directions
        THEN repeat(TRANSPARENT, size[1] * size[2])
        ELSE IF fname \notin DOMAIN directions[src]
             THEN repeat(TRANSPARENT, size[1] * size[2])
             ELSE fit_total(concat(metz_rows(directions[src][fname], pal, size[1],
                                             is_mirrored(tmpl, dir))),
                            size[1] * size[2])

\* render_frame(template, palette_colors, direction, frame_name) of the
\* retro engine.
retro_render_frame(tmpl, pal, dir, fname) ==
    LET size == frame_size(tmpl, RetroDefaultSize)
        src == source_direction(tmpl, dir)
        directions == get(tmpl, "directions", <<>>)
    IN  IF src \notin DOMAIN directions
        THEN repeat(TRANSPARENT, size[1] * size[2])
        ELSE IF fname \notin DOMAIN directions[src]
             THEN repeat(TRANSPARENT, size[1] * size[2])
             ELSE fit_total(concat(retro_rows(directions[src][fname], pal, size[1],
                                              is_mirrored(tmpl, dir))),
                            size[1] * size[2])

\* ------------------------------------------------------------ mirror_util

\* mirror_row(row)
mirror_row(row) == reversed(row)

\* mirror_frame that flips the frame top to bottom instead.
mirror_frame_vertical(f) == reversed(f)

\* mirror_frame(frame)
mirror_frame(f) == [r \in 1..Len(f) |-> mirror_row(f[r])]

\* add_right_direction(template_data): "right" becomes the mirror of every
\* left frame; a document without "left" is returned as it is.
add_right_direction(template_data) ==
    LET directions == get(template_data, "directions", <<>>)
    IN  IF "left" \notin DOMAIN directions
        THEN template_data
        ELSE [template_data EXCEPT !.directions =
                 [d \in DOMAIN directions \cup {"right"} |->
                     IF d = "right"
                     THEN [f \in DOMAIN directions["left"] |->
                              mirror_frame(directions["left"][f])]
                     ELSE directions[d]]]

\* zip(expected, right_frame): the pairs up to the shorter of the two.
zip(a, b) == [i \in 1..(IF Len(a) < Len(b) THEN Len(a) ELSE Len(b)) |-> <<a[i], b[i]>>]

\* verify_mirror(template_data)
verify_mirror(template_data) ==
    LET directions == get(template_data, "directions", <<>>)
    IN  IF "left" \notin DOMAIN directions \/ "right" \notin DOMAIN directions
        THEN FALSE
        ELSE \A f \in DOMAIN directions["left"] :
                /\ f \in DOMAIN directions["right"]
                /\ LET pairs == zip(mirror_frame(directions["left"][f]),
                                    directions["right"][f])
                   IN  \A row_idx \in 1..Len(pairs) :
                           pairs[row_idx][1] = pairs[row_idx][2]

\* expand_template(template_path): None (nothing written) for a template that
\* does not mirror, else the document written, with the flag cleared.
expand_template(data) ==
    IF ~get(data, "mirror_right_from_left", FALSE)
    THEN PyNone
    ELSE [add_right_direction(data) EXCEPT !.mirror_right_from_left = FALSE]

\* ------------------------------------- sheet_exporter._get_direction_data

\* _get_direction_data(template, direction): the explicit entry when there
\* is one, else the mirrored left frames for a mirroring template, else None.
\* (mirror_util is importable: it is a module of the same package.)
_get_direction_data(tmpl, dir) ==
    LET directions == get(tmpl, "directions", <<>>)
    IN  IF dir \in DOMAIN directions
        THEN directions[dir]
        ELSE IF dir = "right" /\ get(tmpl, "mirror_right_from_left", FALSE)
                  /\ "left" \in DOMAIN directions
             THEN [f \in DOMAIN directions["left"] |-> mirror_frame(directions["left"][f])]
             ELSE PyNone

\* ------------------------------------------------- template / palette lookup

FileNotFoundError == [raised |-> "FileNotFoundError"]

KeyError == [raised |-> "KeyError"]

IsError(x) == "raised" \in DOMAIN x

\* load_template(template_id, base_dir): the subdirectories in order, the
\* files of each in sorted order; the first document declaring the id.
load_template(template_id, dirs) ==
    LET docs == concat(dirs)
        hits == {i \in 1..Len(docs) :
                    "template_id" \in DOMAIN docs[i] /\ docs[i].template_id = template_id}
    IN  IF hits = {}
        THEN FileNotFoundError
        ELSE docs[CHOOSE i \in hits : \A j \in hits : i <= j]

\* load_palette(palette_id, base_dir): the palette files in sorted order, the
\* entries of each in order; the colors of the first entry with the id.
load_palette(palette_id, files) ==
    LET entries == concat(files)
        hits == {i \in 1..Len(entries) :
                    "palette_id" \in DOMAIN entries[i] /\ entries[i].palette_id = palette_id}
    IN  IF hits = {}
        THEN FileNotFoundError
        ELSE entries[CHOOSE i \in hits : \A j \in hits : i <= j].colors

\* load_master_palette(base_dir)
load_master_palette(dir) ==
    IF "master_palette" \in DOMAIN dir THEN dir.master_palette ELSE FileNotFoundError

\* ------------------------------------------------------------- compositing

_DIRECTION_ORDER == <<"down", "left", "right", "up">>

Directions == Range(_DIRECTION_ORDER)

DefaultWalkCycle == <<"idle", "walk_1", "idle", "walk_2">>

\* An ascending sort that places equal keys in reverse input order.
sorted_unstable(keys) ==
    LET n == Len(keys)
        rank(i) == 1 + Cardinality({j \in 1..n : keys[j] < keys[i]})
                     + Cardinality({j \in (i + 1)..n : keys[j] = keys[i]})
    IN  [k \in 1..n |-> CHOOSE i \in 1..n : rank(i) = k]

\* sorted(items, key=...): the positions of the items in ascending key
\* order, equal keys in input order (the built-in sort is stable).
sorted(keys) ==
    LET n == Len(keys)
        rank(i) == 1 + Cardinality({j \in 1..n : keys[j] < keys[i]})
                     + Cardinality({j \in 1..(i - 1) : keys[j] = keys[i]})
    IN  [k \in 1..n |-> CHOOSE i \in 1..n : rank(i) = k]

\* Image.new("RGBA", (width, height)) followed by putdata(pixel_data): the
\* data fills the image row-major from the top left; what it does not reach
\* stays (0,0,0,0).  (putdata refuses more than width*height entries.)
putdata(width, height, pixel_data) ==
    [i \in 1..(width * height) |->
        IF i <= Len(pixel_data) THEN pixel_data[i] ELSE TRANSPARENT]

\* A compositing step in which the layer replaces the canvas pixel even where
\* the layer is transparent.
alpha_composite_pixel_replace(dst, src) == src

\* Image.alpha_composite for one pixel whose source alpha is 0 or 255.
alpha_composite_pixel(dst, src) == IF src[4] = 0 THEN dst ELSE src

\* Image.alpha_composite(composite, layer_img)
alpha_composite(dst, src) ==
    [i \in 1..Len(dst) |-> alpha_composite_pixel(dst[i], src[i])]

\* The render_frame of the engine.
render_by(engine, tmpl, pal, dir, fname) ==
    IF engine = "metz"
    THEN render_frame(tmpl, pal, dir, fname)
    ELSE retro_render_frame(tmpl, pal, dir, fname)

\* The frame loop body: a blank canvas, then every layer in paint order.
composite_frame(engine, lyrs, order, dir, fname, width, height) ==
    LET acc[k \in 0..Len(order)] ==
            IF k = 0
            THEN repeat(TRANSPARENT, width * height)
            ELSE alpha_composite(
                     acc[k - 1],
                     putdata(width, height,
                             render_by(engine, lyrs[order[k]].template,
                                       lyrs[order[k]].palette, dir, fname)))
    IN  acc[Len(order)]

\* Whether some putdata call is handed more entries than the canvas holds.
too_many_data(engine, lyrs, cycle, width, height) ==
    \E k \in 1..Len(lyrs), d \in Directions, f \in 1..Len(cycle) :
        Len(render_by(engine, lyrs[k].template, lyrs[k].palette, d, cycle[f]))
            > width * height

\* The direction and frame loops shared by both compositors.
composite_all(engine, lyrs, order, cycle, size) ==
    IF too_many_data(engine, lyrs, cycle, size[1], size[2])
    THEN [raised |-> "TypeError"]
    ELSE [raised |-> "",
          layers |-> lyrs,
          walk_cycle |-> cycle,
          canvas |-> size,
          painted |-> order,
          frames_dict |->
              [d \in Directions |->
                  [f \in 1..Len(cycle) |->
                      composite_frame(engine, lyrs, order[d], d, cycle[f],
                                      size[1], size[2])]]]

\* sorted_templates that uses the same (down) order for every direction.
sorted_templates_down(all_templates, dir) ==
    sorted([k \in 1..Len(all_templates) |-> get_z_order(all_templates[k], "down")])

\* sorted(all_templates, key=lambda t: get_z_order(t, direction))
sorted_templates(all_templates, dir) ==
    sorted([k \in 1..Len(all_templates) |-> get_z_order(all_templates[k], dir)])

RECURSIVE found_templates(_, _)
\* The equipment loop: templates found, in list order; missing ones skipped.
found_templates(ids, dirs) ==
    IF ids = <<>>
    THEN <<>>
    ELSE LET tmpl == load_template(ids[1], dirs)
         IN  (IF IsError(tmpl) THEN <<>> ELSE <<tmpl>>)
                 \o found_templates(Tail(ids), dirs)

\* composite_loadout(loadout, base_dir)
composite_loadout(loadout, dir) ==
    LET pal == load_master_palette(dir)
        body_template == load_template(loadout.body, dir.templates)
    IN  IF IsError(pal) THEN pal
        ELSE IF "body" \notin DOMAIN loadout THEN KeyError
        ELSE IF IsError(body_template) THEN body_template
        ELSE
        LET all_templates ==
                <<body_template>>
                    \o found_templates(get(loadout, "equipment", <<>>), dir.templates)
            cycle == get(body_template, "walk_cycle", DefaultWalkCycle)
            size == frame_size(body_template, MetzDefaultSize)
        IN  composite_all(
                "metz",
                [k \in 1..Len(all_templates) |->
                    [template |-> all_templates[k], palette |-> pal]],
                [d \in Directions |-> sorted_templates(all_templates, d)],
                cycle, size)

\* composite_npc(npc_def, base_dir)
composite_npc(npc_def, dir) ==
    LET size == get(npc_def, "sprite_size", RetroDefaultSize)
        n == Len(npc_def.layers)
        order == sorted([k \in 1..n |-> get(npc_def.layers[k], "z_order", 0)])
        lyrs == [k \in 1..n |->
                    [template |-> load_template(npc_def.layers[k].template, dir.templates),
                     palette |-> load_palette(npc_def.layers[k].palette, dir.palettes)]]
        with_cycle == {k \in 1..n : "walk_cycle" \in DOMAIN lyrs[order[k]].template}
        cycle == IF with_cycle = {}
                 THEN DefaultWalkCycle
                 ELSE lyrs[order[CHOOSE k \in with_cycle : \A j \in with_cycle : k <= j]]
                          .template.walk_cycle
    IN  IF "layers" \notin DOMAIN npc_def THEN KeyError
        ELSE IF \E k \in 1..n : IsError(lyrs[k].template) \/ IsError(lyrs[k].palette)
        THEN FileNotFoundError
        ELSE composite_all("retro", lyrs, [d \in Directions |-> order], cycle, size)

\* ---------------------------------------------------------------- exporters

\* A PIL image: its size and its pixels, row-major.
Image(w, h, data) == [w |-> w, h |-> h, data |-> data]

\* Image.new("RGBA", (w, h), fill)
image_new(w, h, fill) == Image(w, h, repeat(fill, w * h))

\* im.getpixel((x, y))
getpixel(im, x, y) == im.data[y * im.w + x + 1]

\* im.resize((im.w * s, im.h * s), Image.NEAREST) for an integer factor s.
resize(im, s) ==
    Image(im.w * s, im.h * s,
          [i \in 1..(im.w * s * im.h * s) |->
              getpixel(im, ((i - 1) % (im.w * s)) \div s, ((i - 1) \div (im.w * s)) \div s)])

\* dst.paste(im, (x, y)), or dst.paste(im, (x, y), im) when masked: the box
\* is overwritten (where im is opaque, when masked), clipped to dst.
paste(dst, im, x, y, masked) ==
    Image(dst.w, dst.h,
          [i \in 1..(dst.w * dst.h) |->
              LET X == (i - 1) % dst.w
                  Y == (i - 1) \div dst.w
              IN  IF /\ X >= x /\ X < x + im.w /\ Y >= y /\ Y < y + im.h
                     /\ (masked => getpixel(im, X - x, Y - y)[4] # 0)
                  THEN getpixel(im, X - x, Y - y)
                  ELSE dst.data[i]])

RECURSIVE paste_each(_, _, _)
\* The paste calls of a loop, in order; each is [im, x, y].
paste_each(dst, calls, masked) ==
    IF calls = <<>>
    THEN dst
    ELSE paste_each(paste(dst, calls[1].im, calls[1].x, calls[1].y, masked),
                    Tail(calls), masked)

\* The largest of a non-empty set of numbers.
max(S) == CHOOSE m \in S : \A n \in S : n <= m

\* The smallest of a non-empty set of numbers.
min(S) == CHOOSE m \in S : \A n \in S : m <= n

\* frames_dict.get(direction, [])
frames_of(fd, dir) == IF dir \in DOMAIN fd THEN fd[dir] ELSE <<>>

\* The nested loops of a sheet exporter: for each direction of order (row
\* by row) one paste per frame, the first num_cols frames when limited.
sheet_calls(fd, order, frame_w, frame_h, num_cols) ==
    concat([r \in 1..Len(order) |->
               LET frames == frames_of(fd, order[r])
                   n == IF num_cols > 0 /\ Len(frames) > num_cols
                        THEN num_cols
                        ELSE Len(frames)
               IN  [c \in 1..n |->
                       [im |-> frames[c], x |-> (c - 1) * frame_w, y |-> (r - 1) * frame_h]]])

\* export_spritesheet(frames_dict, output_path, scale) of both compositors:
\* the PNG saved.
export_spritesheet(fd, s) ==
    LET sample == fd[_DIRECTION_ORDER[1]][1]
        cols == max({Len(fd[d]) : d \in DOMAIN fd})
        rows == Len(_DIRECTION_ORDER)
        blank == image_new(sample.w * cols, sample.h * rows, <<0, 0, 0, 0>>)
        built == paste_each(blank,
                            sheet_calls(fd, _DIRECTION_ORDER, sample.w, sample.h, 0),
                            FALSE)
    IN  IF s > 1 THEN resize(built, s) ELSE built

\* export_preview(frames_dict, output_dir, name, scale): the PNG saved.
export_preview(fd, s) ==
    LET sample == fd[_DIRECTION_ORDER[1]][1]
        cols == max({Len(fd[d]) : d \in DOMAIN fd})
        rows == Len(_DIRECTION_ORDER)
        blank == image_new(sample.w * cols, sample.h * rows, <<0, 0, 0, 0>>)
        built == paste_each(blank,
                            sheet_calls(fd, _DIRECTION_ORDER, sample.w, sample.h, 0),
                            FALSE)
    IN  IF s > 1 THEN resize(built, s) ELSE built

\* DIRECTIONS of the retro sheet_exporter and batch_generator.
DIRECTIONS == <<"down", "left", "up", "right">>

\* num_cols of _create_spritesheet
SheetCols == 4

\* _create_spritesheet(frames_dict, sprite_size), then the upscale that
\* batch_export applies to the sheet it saves.
_create_spritesheet(fd, sprite_size, s) ==
    LET blank == image_new(sprite_size[1] * SheetCols, sprite_size[2] * Len(DIRECTIONS),
                           <<0, 0, 0, 0>>)
        built == paste_each(blank,
                            sheet_calls(fd, DIRECTIONS, sprite_size[1], sprite_size[2],
                                        SheetCols),
                            TRUE)
    IN  IF s > 1 THEN resize(built, s) ELSE built

\* int(1000 / fps)
duration_of(fps) == 1000 \div fps

RECURSIVE fold_identical(_, _)
\* The GIF writer's pass over the frames when it folds: a frame identical to
\* the one written before it is not written, its duration is added to that
\* frame's.
fold_identical(written, rest) ==
    IF rest = <<>>
    THEN written
    ELSE IF written # <<>> /\ written[Len(written)].im = rest[1].im
         THEN fold_identical(
                  [written EXCEPT ![Len(written)].duration = @ + rest[1].duration],
                  Tail(rest))
         ELSE fold_identical(Append(written, rest[1]), Tail(rest))

\* frames[0].save(path, save_all=True, append_images=frames[1:],
\*                duration=duration_ms, loop=0, disposal=2, transparency=0):
\* the file written.  Pillow's writer folds identical consecutive frames;
\* a writer that does not keeps one frame per image handed to it.
gif_save(frames, duration_ms, folds) ==
    LET each == [k \in 1..Len(frames) |-> [im |-> frames[k], duration |-> duration_ms]]
    IN  [frames |-> IF folds THEN fold_identical(<<>>, each) ELSE each,
         loop |-> 0, disposal |-> 2, transparency |-> 0]

\* _make_gif_frames(pil_frames, scale)
_make_gif_frames(pil_frames, s) == [k \in 1..Len(pil_frames) |-> resize(pil_frames[k], s)]

\* _save_animated_gif(frames, output_path, fps): the file, None when there
\* are no frames.
_save_animated_gif(frames, fps, folds) ==
    IF frames = <<>> THEN PyNone ELSE gif_save(frames, duration_of(fps), folds)

\* create_animation_preview(frames_dict, direction, output_path, scale, fps)
create_animation_preview(fd, dir, s, fps, folds) ==
    IF dir \notin DOMAIN fd
    THEN PyNone
    ELSE IF fd[dir] = <<>>
         THEN PyNone
         ELSE gif_save([k \in 1..Len(fd[dir]) |-> resize(fd[dir][k], s)],
                       duration_of(fps), folds)

\* "Layout:  down | right / left | up"
grid_order == <<<<"down", "right">>, <<"left", "up">>>>

\* One frame of the combined 2x2 GIF: the four sprites pasted through their
\* own alpha; labelled says whether a label was drawn above each of them.
grid_frame(direction_scaled, frame_idx, s, has_font) ==
    LET sample == direction_scaled[_DIRECTION_ORDER[1]][1]
        padding == max({2, s})
        label_height == IF has_font THEN max({12, s * 4}) ELSE 0
        blank == image_new(sample.w * 2 + padding,
                           (sample.h + label_height) * 2 + padding, <<0, 0, 0, 0>>)
        calls == concat([r \in 1..2 |->
                     [c \in 1..2 |->
                         [im |-> direction_scaled[grid_order[r][c]][frame_idx],
                          x |-> (c - 1) * (sample.w + padding),
                          y |-> (r - 1) * (sample.h + label_height + padding)
                                    + label_height]]])
    IN  [labelled |-> has_font, im |-> paste_each(blank, calls, TRUE)]

\* export_walk_gifs(frames_dict, output_dir, name, scale, fps): the files
\* written, by the suffix of their name.
export_walk_gifs(fd, s, fps, has_font, folds) ==
    LET with_frames == {d \in Directions : frames_of(fd, d) # <<>>}
        direction_scaled == [d \in with_frames |-> _make_gif_frames(fd[d], s)]
        per_direction == [d \in with_frames |->
                             _save_animated_gif(direction_scaled[d], fps, folds)]
        num_frames == min({Len(direction_scaled[d]) : d \in with_frames})
        grid_frames == [k \in 1..num_frames |->
                           grid_frame(direction_scaled, k, s, has_font)]
    IN  IF Cardinality(with_frames) = 4
        THEN per_direction @@ [all |-> _save_animated_gif(grid_frames, fps, folds)]
        ELSE per_direction

\* render_single_layer(template, base_dir, direction, frame_name)
render_single_layer(tmpl, dir, direction_, frame_name_) ==
    LET pal == load_master_palette(dir)
        size == frame_size(tmpl, MetzDefaultSize)
    IN  IF IsError(pal)
        THEN pal
        ELSE Image(size[1], size[2],
                   putdata(size[1], size[2], render_frame(tmpl, pal, direction_, frame_name_)))

\* tmpl_id.replace("_", " "); the template ids of this model have no "_".
label_of(tmpl_id) == tmpl_id

\* export_paper_doll(loadout, base_dir, output_path, scale): the cells of
\* the strip saved, None when no layer could be rendered, or the exception.
export_paper_doll(loadout, dir, s, has_font) ==
    LET template_ids == <<loadout.body>> \o get(loadout, "equipment", <<>>)
        found == found_templates(template_ids, dir.templates)
        images == [k \in 1..Len(found) |-> render_single_layer(found[k], dir, "down", "idle")]
        padding == max({2, s})
        title_height == IF has_font THEN max({18, s * 5}) ELSE 0
    IN  IF "body" \notin DOMAIN loadout THEN KeyError
        ELSE IF found # <<>> /\ IsError(images[1]) THEN images[1]
        ELSE IF found = <<>> THEN PyNone
        ELSE [k \in 1..Len(found) |->
                 [label |-> label_of(found[k].template_id),
                  im |-> resize(images[k], s),
                  x |-> (k - 1) * (images[1].w * s + padding),
                  y |-> title_height]]

\* ------------------------------------- sheet_exporter: standalone renderer

\* FRAME_NAMES of the retro sheet_exporter.
FRAME_NAMES == <<"idle", "walk_1", "idle", "walk_2">>

\* File stem of the k-th document of the c-th template directory: names
\* when base_dir gives them, else the template_id the document declares.
file_stem(dir, c, k) ==
    IF "names" \in DOMAIN dir THEN dir.names[c][k] ELSE dir.templates[c][k].template_id

\* _find_template(template_id, base_dir): the file <template_id>.json of
\* the first search directory that has it, None when none has.
_find_template(template_id, dir) ==
    LET hits == {c \in 1..Len(dir.templates) :
                    \E k \in 1..Len(dir.templates[c]) : file_stem(dir, c, k) = template_id}
    IN  IF hits = {}
        THEN PyNone
        ELSE LET c == min(hits)
             IN  dir.templates[c][CHOOSE k \in 1..Len(dir.templates[c]) :
                                      file_stem(dir, c, k) = template_id]

\* batch_generator._find_template_local(template_id, base_dir): the same
\* search as _find_template.
_find_template_local(template_id, dir) == _find_template(template_id, dir)

\* _find_palette(palette_id, base_dir): the colors of the first entry with
\* the id, the files taken in the order base_dir lists them.
_find_palette(palette_id, dir) ==
    IF "palettes" \notin DOMAIN dir
    THEN PyNone
    ELSE LET entries == concat(dir.palettes)
             hits == {i \in 1..Len(entries) :
                         "palette_id" \in DOMAIN entries[i]
                             /\ entries[i].palette_id = palette_id}
         IN  IF hits = {}
             THEN PyNone
             ELSE get(entries[min(hits)], "colors", PyDict(<<>>))

\* _render_layer(img, pixel_grid, palette): img after the putpixel calls.
_render_layer(img, pixel_grid, pal) ==
    Image(img.w, img.h,
          [i \in 1..(img.w * img.h) |->
              LET x == (i - 1) % img.w
                  y == (i - 1) \div img.w
                  inside == y < Len(pixel_grid) /\ x < Len(pixel_grid[y + 1])
                  pixel == pixel_grid[y + 1][x + 1]
              IN  IF /\ inside
                     /\ pixel # PyInt(0) /\ pixel # PyNone
                     /\ str(pixel) \in DOMAIN pal.m
                     /\ pal.m[str(pixel)] # PyNone
                  THEN hex_to_rgba(pal.m[str(pixel)].s)
                  ELSE img.data[i]])

RECURSIVE render_layers(_, _, _, _)
\* "Composite each layer onto the frame"
render_layers(img, loaded_layers, dir, fname) ==
    IF loaded_layers = <<>>
    THEN img
    ELSE LET dir_data_ == _get_direction_data(loaded_layers[1].template, dir)
             drawn == IF dir_data_ = PyNone \/ fname \notin DOMAIN dir_data_
                      THEN img
                      ELSE _render_layer(img, dir_data_[fname], loaded_layers[1].palette)
         IN  render_layers(drawn, Tail(loaded_layers), dir, fname)

RECURSIVE loaded_in(_, _, _)
\* "Load all templates and palettes for this NPC": the layers of ids, in
\* that order, without those whose template or palette is not found.
loaded_in(layer_list, order, dir) ==
    IF order = <<>>
    THEN <<>>
    ELSE LET layer == layer_list[order[1]]
             template_data == _find_template(layer.template, dir)
             palette_colors == _find_palette(layer.palette, dir)
         IN  (IF template_data = PyNone \/ palette_colors = PyNone
              THEN <<>>
              ELSE <<[template |-> template_data, palette |-> palette_colors]>>)
                 \o loaded_in(layer_list, Tail(order), dir)

\* _build_frames_standalone(npc_path, base_dir) on the NPC document read.
_build_frames_standalone(npc_data, dir) ==
    LET size == get(npc_data, "sprite_size", RetroDefaultSize)
        layer_list == get(npc_data, "layers", <<>>)
        frame_order == get(get(npc_data, "animation", <<>>), "frame_order", FRAME_NAMES)
        order == sorted([k \in 1..Len(layer_list) |-> get(layer_list[k], "z_order", 0)])
        loaded_layers == loaded_in(layer_list, order, dir)
        frames == [d \in Range(DIRECTIONS) |->
                      [k \in 1..Len(frame_order) |->
                          render_layers(image_new(size[1], size[2], <<0, 0, 0, 0>>),
                                        loaded_layers, d, frame_order[k]).data]]
    IN  [raised |-> "",
         layers |-> loaded_layers,
         walk_cycle |-> frame_order,
         canvas |-> size,
         painted |-> [d \in Range(DIRECTIONS) |-> [k \in 1..Len(loaded_layers) |-> k]],
         frames_dict |-> IF frame_order = <<>> THEN <<>> ELSE frames]

\* ------------------------------- batch_generator._render_npc_standalone

\* _find_palette_local(palette_id, base_dir): the same search as _find_palette.
_find_palette_local(palette_id, dir) == _find_palette(palette_id, dir)

\* _get_direction_data_local(template, direction): the explicit entry, else
\* for "right" of a mirroring template every left row reversed, else None.
_get_direction_data_local(tmpl, dir) ==
    LET directions == get(tmpl, "directions", <<>>)
    IN  IF dir \in DOMAIN directions
        THEN directions[dir]
        ELSE IF dir = "right" /\ get(tmpl, "mirror_right_from_left", FALSE)
                  /\ "left" \in DOMAIN directions
             THEN [f \in DOMAIN directions["left"] |->
                      [r \in 1..Len(directions["left"][f]) |->
                          reversed(directions["left"][f][r])]]
             ELSE PyNone

\* _render_layer_onto(img, pixel_grid, palette): the loop of _render_layer.
_render_layer_onto(img, pixel_grid, pal) == _render_layer(img, pixel_grid, pal)

\* _render_npc_standalone(npc_def, base_dir)
_render_npc_standalone(npc_def, dir) ==
    LET size == get(npc_def, "sprite_size", RetroDefaultSize)
        layers_cfg == get(npc_def, "layers", <<>>)
        frame_order == get(get(npc_def, "animation", <<>>), "frame_order", FRAME_NAMES)
        order == sorted([k \in 1..Len(layers_cfg) |-> get(layers_cfg[k], "z_order", 0)])
        found == [k \in 1..Len(order) |->
                     [template |-> _find_template_local(layers_cfg[order[k]].template, dir),
                      palette |-> _find_palette_local(layers_cfg[order[k]].palette, dir)]]
        present(layer) == layer.template # PyNone /\ layer.palette # PyNone
        loaded_layers == SelectSeq(found, present)
        img(d, fname) ==
            LET acc[k \in 0..Len(loaded_layers)] ==
                    IF k = 0
                    THEN image_new(size[1], size[2], <<0, 0, 0, 0>>)
                    ELSE LET dir_data_ == _get_direction_data_local(
                                              loaded_layers[k].template, d)
                         IN  IF dir_data_ = PyNone \/ fname \notin DOMAIN dir_data_
                             THEN acc[k - 1]
                             ELSE _render_layer_onto(acc[k - 1], dir_data_[fname],
                                                     loaded_layers[k].palette)
            IN  acc[Len(loaded_layers)]
    IN  [raised |-> "",
         layers |-> loaded_layers,
         walk_cycle |-> frame_order,
         canvas |-> size,
         painted |-> [d \in Range(DIRECTIONS) |-> [k \in 1..Len(loaded_layers) |-> k]],
         frames_dict |-> IF frame_order = <<>>
                         THEN <<>>
                         ELSE [d \in Range(DIRECTIONS) |->
                                  [k \in 1..Len(frame_order) |-> img(d, frame_order[k]).data]]]

\* ---------------------------------------------------------- batch_generator

\* The pseudorandom generator is a state and a step: what it yields is a
\* function of its state alone. This one has eleven states, 0..10: a cycle of
\* ten and state 10, which the step leaves where it is, for the seeds whose
\* draws repeat one choice for as long as a batch lasts.
RandomStep == <<1, 3, 5, 7, 9, 0, 2, 4, 6, 8, 10>>

\* One draw advances the generator.
random_next(s) == RandomStep[s + 1]

\* random.Random() whatever the seed: always seeded from the system.
Random_unseeded(seed, urandom) == urandom

\* random.Random(seed): seeded from the seed, or from the system when it is None.
Random(seed, urandom) ==
    IF seed = PyNone THEN urandom ELSE seed.n % Len(RandomStep)

\* rng.choice(seq) in state s
choice(s, seq) == seq[(s % Len(seq)) + 1]

RECURSIVE draws(_, _)
\* The states of the generator before the first draw and after each of n draws.
draws(s, n) == IF n = 0 THEN <<s>> ELSE <<s>> \o draws(random_next(s), n - 1)

\* f"{value}" of a str or None
format_str(value) == IF value = PyNone THEN <<"N", "o", "n", "e">> ELSE value.s

DecimalDigits == <<"0", "1", "2", "3", "4", "5", "6", "7", "8", "9">>

RECURSIVE format_d(_)
\* f"{n:d}" of n >= 0
format_d(n) ==
    IF n < 10
    THEN <<DecimalDigits[n + 1]>>
    ELSE format_d(n \div 10) \o <<DecimalDigits[(n % 10) + 1]>>

\* f"{n:03d}" of n >= 0: zero-padded to at least three characters.
format_03d(n) ==
    LET digits == format_d(n)
    IN  IF Len(digits) < 3 THEN repeat("0", 3 - Len(digits)) \o digits ELSE digits

\* The keys generate_random_npc draws from, in the order it draws, and the
\* pool used when the key is absent.
PoolKeys ==
    <<"body_templates", "clothing_options", "hair_options", "accessory_options",
      "skin_palettes", "hair_palettes", "clothing_palettes", "accessory_palettes">>

PoolDefaults ==
    <<<<PyStr(<<"body_medium">>)>>, <<PyStr(<<"tunic_simple">>)>>,
      <<PyStr(<<"hair_short">>)>>, <<PyNone>>,
      <<PyStr(<<"skin_light">>)>>, <<PyStr(<<"hair_brown">>)>>,
      <<PyStr(<<"clothing_brown">>)>>, <<PyStr(<<"accessory_gold">>)>>>>

\* generate_random_npc(generator_config, rng) with the counter at counter:
\* the definition returned (or the exception raised), the generator and the
\* counter afterwards. display_name is left out.
generate_random_npc(generator_config, rng, counter) ==
    LET gen_id == get(generator_config, "generator_id", PyStr(<<"n", "p", "c">>))
        sprite_size == get(generator_config, "base_sprite_size", <<16, 24>>)
        pools == [i \in 1..8 |-> get(generator_config, PoolKeys[i], PoolDefaults[i])]
        empty == {i \in 1..8 : pools[i] = <<>>}
        states == draws(rng, 8)
        picked == <<choice(states[1], pools[1]), choice(states[2], pools[2]),
                    choice(states[3], pools[3]), choice(states[4], pools[4]),
                    choice(states[5], pools[5]), choice(states[6], pools[6]),
                    choice(states[7], pools[7]), choice(states[8], pools[8])>>
        body == picked[1]
        clothing == picked[2]
        hair == picked[3]
        accessory == picked[4]
        skin_palette == picked[5]
        hair_palette == picked[6]
        clothing_palette == picked[7]
        accessory_palette == picked[8]
        npc_id == format_str(gen_id) \o <<"_">> \o format_03d(counter + 1)
        three == <<[template |-> body, palette |-> skin_palette, z_order |-> 0],
                   [template |-> clothing, palette |-> clothing_palette, z_order |-> 1],
                   [template |-> hair, palette |-> hair_palette, z_order |-> 2]>>
        with_accessory ==
            IF accessory # PyNone
            THEN Append(three, [template |-> accessory, palette |-> accessory_palette,
                                z_order |-> 3])
            ELSE three
    IN  IF empty # {}
        THEN [raised |-> "IndexError", npc |-> PyNone,
              rng |-> states[min(empty)], counter |-> counter]
        ELSE [raised |-> "",
              npc |-> [npc_id |-> npc_id,
                       sprite_size |-> sprite_size,
                       layers |-> with_accessory,
                       animation |-> [walk_speed_fps |-> 8, idle_bob |-> FALSE,
                                      frame_order |-> <<"idle", "walk_1", "idle", "walk_2">>],
                       metadata |-> [generator |-> gen_id, body |-> body,
                                     clothing |-> clothing, hair |-> hair,
                                     accessory |-> accessory,
                                     skin_palette |-> skin_palette,
                                     hair_palette |-> hair_palette,
                                     clothing_palette |-> clothing_palette,
                                     accessory_palette |->
                                         IF accessory \notin {PyNone, PyStr(<<>>)}
                                         THEN accessory_palette ELSE PyNone]],
              rng |-> states[9], counter |-> counter + 1]

RECURSIVE join(_, _)
\* sep.join(parts)
join(sep, parts) ==
    IF parts = <<>> THEN <<>>
    ELSE IF Len(parts) = 1 THEN parts[1]
    ELSE parts[1] \o sep \o join(sep, Tail(parts))

\* signature = "|".join(f"{layer['template']}:{layer['palette']}" ...)
signature_of(npc) ==
    join(<<"|">>, [i \in 1..Len(npc.layers) |->
        format_str(npc.layers[i].template) \o <<":">> \o format_str(npc.layers[i].palette)])

\* "if signature not in seen_combos" that never finds the signature.
is_new_always(signature, seen_combos) == TRUE

\* if signature not in seen_combos
is_new(signature, seen_combos) == signature \notin seen_combos

\* "_batch_counter = 0" left out: the batch goes on from the counter it finds.
reset_counter_kept(counter) == counter

\* _batch_counter = 0  # Reset counter for each batch
reset_counter(counter) == 0

\* One pass of the loop body on the candidate r that generate_random_npc gave:
\* the exception goes up, a new signature is kept, a seen one is discarded.
batch_step(st, r) ==
    IF r.raised # ""
    THEN [st EXCEPT !.raised = r.raised, !.attempts = @ + 1,
                    !.rng = r.rng, !.counter = r.counter]
    ELSE LET signature == signature_of(r.npc)
         IN  IF is_new(signature, st.seen_combos)
             THEN [st EXCEPT !.attempts = @ + 1, !.rng = r.rng,
                             !.counter = r.counter,
                             !.seen_combos = @ \cup {signature},
                             !.npcs = Append(@, r.npc)]
             ELSE [st EXCEPT !.attempts = @ + 1, !.rng = r.rng,
                             !.counter = r.counter - 1]

RECURSIVE batch_loop(_, _, _, _)
\* The while loop of generate_batch from the state st of its variables.
batch_loop(generator_config, count, max_attempts, st) ==
    IF st.raised # "" \/ ~(Len(st.npcs) < count /\ st.attempts < max_attempts)
    THEN st
    ELSE batch_loop(generator_config, count, max_attempts,
             batch_step(st, generate_random_npc(generator_config, st.rng, st.counter)))

\* A safety limit of twice the attempts.
max_attempts_double(count) == count * 20

\* A safety limit of half the attempts.
max_attempts_half(count) == count * 5

\* max_attempts = count * 10  # Safety limit to prevent infinite loops
max_attempts_of(count) == count * 10

\* generate_batch(generator_config, count, seed) called with the module counter
\* at counter: its variables when it returns or raises.
generate_batch(generator_config, count, seed, urandom, counter) ==
    batch_loop(generator_config, count, max_attempts_of(count),
        [npcs |-> <<>>, seen_combos |-> {}, attempts |-> 0, raised |-> "",
         rng |-> Random(seed, urandom), counter |-> reset_counter(counter)])

\* ------------------------------------------------------------------ actions

IdleResolve == palette = PyNone /\ dot_key = <<>> /\ hex_colour = PyNone

IdleRender ==
    /\ template = PyNone
    /\ direction = ""
    /\ frame_name = ""
    /\ z = 0
    /\ pixels = <<>>
    /\ dir_data = PyNone

IdleMirror == frame = <<>> /\ original = <<>> /\ mirrors = 0

IdleComp ==
    /\ base_dir = <<>>
    /\ request = <<>>
    /\ layers = <<>>
    /\ walk_cycle = <<>>
    /\ canvas = <<0, 0>>
    /\ painted = <<>>
    /\ frames_dict = <<>>
    /\ raised = ""

\* resolve_color is called once on the drawn palette and key.
IdleExport ==
    /\ scale = 0
    /\ sheet = PyNone
    /\ gif = PyNone
    /\ doll = <<>>
    /\ stores = {}

IdleBatch == _batch_counter = 0 /\ random_state = 0 /\ history = <<>>

IdleUtil == expanded = PyNone /\ expanded_pixels = <<>> /\ verified = PyNone

IdleLookup == lookup_id = "" /\ lookups = <<>>

IdleMega == all_sheets = <<>> /\ mega = PyNone /\ saved = <<>> /\ npc_idx = 0

InitResolve ==
    /\ op = ""
    /\ palette \in NestedPalettes
    /\ dot_key \in Keys
    /\ hex_colour = PyNone
    /\ IdleRender
    /\ IdleMirror
    /\ IdleComp
    /\ IdleExport
    /\ IdleBatch
    /\ IdleUtil
    /\ IdleLookup
    /\ IdleMega

ResolveColor ==
    /\ op = ""
    /\ op' = "resolve_color"
    /\ hex_colour' = resolve_color(palette, dot_key)
    /\ UNCHANGED <<palette, dot_key, renderVars, mirrorVars, compVars>>
    /\ UNCHANGED exportVars
    /\ UNCHANGED batchVars
    /\ UNCHANGED utilVars
    /\ UNCHANGED lookupVars
    /\ UNCHANGED megaVars

NextResolve == ResolveColor

SpecResolve == InitResolve /\ [][NextResolve]_vars

\* ---- get_z_order on a drawn template and direction

ZOverrides == UNION {[S -> {1, 5}] : S \in SUBSET Directions}

ZTemplates ==
    {[template_id |-> "t", z_order_override |-> ov] : ov \in ZOverrides}
    \cup {[template_id |-> "t", z_order |-> zo, z_order_override |-> ov] :
              zo \in {0, 2, 3}, ov \in ZOverrides}
    \cup {[template_id |-> "t"]}
    \cup {[template_id |-> "t", z_order |-> zo] : zo \in {0, 2, 3}}

InitZOrder ==
    /\ op = ""
    /\ template \in ZTemplates
    /\ direction \in Directions
    /\ frame_name = ""
    /\ z = 0
    /\ pixels = <<>>
    /\ dir_data = PyNone
    /\ IdleResolve
    /\ IdleMirror
    /\ IdleComp
    /\ IdleExport
    /\ IdleBatch
    /\ IdleUtil
    /\ IdleLookup
    /\ IdleMega

GetZOrder ==
    /\ op = ""
    /\ op' = "get_z_order"
    /\ z' = get_z_order(template, direction)
    /\ UNCHANGED <<template, direction, frame_name, pixels, dir_data,
                   resolveVars, mirrorVars, compVars>>
    /\ UNCHANGED exportVars
    /\ UNCHANGED batchVars
    /\ UNCHANGED utilVars
    /\ UNCHANGED lookupVars
    /\ UNCHANGED megaVars

NextZOrder == GetZOrder

SpecZOrder == InitZOrder /\ [][NextZOrder]_vars

\* ---- render_frame (both engines) and _get_direction_data on drawn inputs

SkinBase == <<"s", "k", "i", "n", ".", "b", "a", "s", "e">>

SkinDark == <<"s", "k", "i", "n", ".", "d", "a", "r", "k">>

SkinNone == <<"s", "k", "i", "n", ".", "x">>

\* A master palette as the metz engine reads it.
MasterPalette ==
    PyDict((<<"s", "k", "i", "n">> :>
               PyDict((<<"b", "a", "s", "e">> :> PyStr(HexA))
                      @@ (<<"d", "a", "r", "k">> :> PyStr(HexB)))))

\* The spec's example palette {"skin": {"base": "#F0C080"}}.
ExamplePalette ==
    PyDict((<<"s", "k", "i", "n">> :> PyDict((<<"b", "a", "s", "e">> :> PyStr(HexA)))))

\* A flat colors mapping as the retro engine reads it.
FlatPalette == PyDict((SkinBase :> PyStr(HexA)) @@ (SkinDark :> PyStr(HexB)))

\* A mapping that has the key both ways: nested for the metz engine, flat for
\* the retro engine.
MixedPalette ==
    PyDict((<<"s", "k", "i", "n">> :> PyDict((<<"b", "a", "s", "e">> :> PyStr(HexA))))
           @@ (SkinBase :> PyStr(HexB)))

\* A master palette with a shade that is a number, not a colour string.
NumberShadePalette ==
    PyDict((<<"s", "k", "i", "n">> :>
               PyDict((<<"b", "a", "s", "e">> :> PyStr(HexA))
                      @@ (<<"d", "a", "r", "k">> :> PyInt(7)))))

RenderPalettes == {MasterPalette, ExamplePalette, FlatPalette, NumberShadePalette}

\* Cells of freely shaped grids: the sentinel and one colour key.
RaggedCells == {PyInt(0), PyStr(SkinBase)}

RaggedGrids == SeqsUpTo(SeqsUpTo(RaggedCells, MaxCols), MaxRows)

\* Every kind of cell: the three sentinels, resolvable keys, an unresolvable
\* key and a non-zero number.
AllCells ==
    {PyInt(0), PyStr(<<"0">>), PyNone, PyStr(SkinBase), PyStr(SkinDark),
     PyStr(SkinNone), PyInt(1)}

\* Grids of exactly h rows by w columns.
ExactGrids(w, h) == [1..h -> [1..w -> AllCells]]

\* Mirroring templates whose left grid has any shape, rendered left (as
\* stored) and right (mirrored).
RaggedInputs ==
    {[template |-> [template_id |-> "t", size |-> <<w, h>>,
                    mirror_right_from_left |-> TRUE,
                    directions |-> [left |-> [idle |-> g]]],
      palette |-> MixedPalette, direction |-> d, frame_name |-> "idle"] :
        w \in 1..MaxDim, h \in 1..MaxDim, g \in RaggedGrids,
        d \in {"left", "right"}}

LeftGrid == <<<<PyStr(SkinBase), PyInt(0)>>>>

RightGrid == <<<<PyStr(SkinDark), PyStr(SkinDark)>>>>

\* directions mappings over left and right, each with or without "idle".
DirectionMaps ==
    LET L == {[idle |-> LeftGrid], <<>>}
        R == {[idle |-> RightGrid], <<>>}
    IN  {<<>>} \cup {[left |-> l] : l \in L} \cup {[right |-> r] : r \in R}
        \cup {[left |-> l, right |-> r] : l \in L, r \in R}

\* The three ways a template declares (or does not declare) its size.
SizeForms ==
    {[size |-> <<2, 1>>], [dimensions |-> [width |-> 2, height |-> 1]], <<>>}

\* The ways a template sets (or omits) mirror_right_from_left.
MirrorForms ==
    {<<>>, [mirror_right_from_left |-> FALSE], [mirror_right_from_left |-> TRUE]}

\* Templates that differ in which keys, directions and frames they have.
StructureTemplates ==
    {sz @@ mf @@ [template_id |-> "t", directions |-> dm] :
        sz \in SizeForms, mf \in MirrorForms, dm \in DirectionMaps}
    \cup {sz @@ mf @@ [template_id |-> "t"] : sz \in SizeForms, mf \in MirrorForms}

StructureInputs ==
    {[template |-> t, palette |-> pal, direction |-> d, frame_name |-> f] :
        t \in StructureTemplates, pal \in {MasterPalette, FlatPalette},
        d \in Directions, f \in {"idle", "walk_1"}}

\* Templates whose down grid has exactly the declared size.
ExactSizes == {wh \in (1..MaxCells) \X (1..MaxCells) : wh[1] * wh[2] <= MaxCells}

ExactInputs ==
    UNION {{[template |-> [template_id |-> "t", size |-> wh,
                           directions |-> [down |-> [idle |-> g]]],
             palette |-> pal, direction |-> "down", frame_name |-> "idle"] :
               g \in ExactGrids(wh[1], wh[2]), pal \in RenderPalettes} :
           wh \in ExactSizes}

RenderInputs == RaggedInputs \cup StructureInputs \cup ExactInputs

InitRender ==
    /\ op = ""
    /\ \E inp \in RenderInputs :
          /\ template = inp.template
          /\ palette = inp.palette
          /\ direction = inp.direction
          /\ frame_name = inp.frame_name
    /\ dot_key = <<>>
    /\ hex_colour = PyNone
    /\ z = 0
    /\ pixels = <<>>
    /\ dir_data = PyNone
    /\ IdleMirror
    /\ IdleComp
    /\ IdleExport
    /\ IdleBatch
    /\ IdleUtil
    /\ IdleLookup
    /\ IdleMega

RenderFrame ==
    /\ op = ""
    /\ op' = "render_frame"
    /\ pixels' = render_frame(template, palette, direction, frame_name)
    /\ UNCHANGED <<template, direction, frame_name, z, dir_data,
                   resolveVars, mirrorVars, compVars>>
    /\ UNCHANGED exportVars
    /\ UNCHANGED batchVars
    /\ UNCHANGED utilVars
    /\ UNCHANGED lookupVars
    /\ UNCHANGED megaVars

RetroRenderFrame ==
    /\ op = ""
    /\ op' = "retro_render_frame"
    /\ pixels' = retro_render_frame(template, palette, direction, frame_name)
    /\ UNCHANGED <<template, direction, frame_name, z, dir_data,
                   resolveVars, mirrorVars, compVars>>
    /\ UNCHANGED exportVars
    /\ UNCHANGED batchVars
    /\ UNCHANGED utilVars
    /\ UNCHANGED lookupVars
    /\ UNCHANGED megaVars

GetDirectionData ==
    /\ op = ""
    /\ op' = "_get_direction_data"
    /\ dir_data' = _get_direction_data(template, direction)
    /\ UNCHANGED <<template, direction, frame_name, z, pixels,
                   resolveVars, mirrorVars, compVars>>
    /\ UNCHANGED exportVars
    /\ UNCHANGED batchVars
    /\ UNCHANGED utilVars
    /\ UNCHANGED lookupVars
    /\ UNCHANGED megaVars

NextRender == RenderFrame \/ RetroRenderFrame

SpecRender == InitRender /\ [][NextRender]_vars

\* ---- the same three functions on the templates that declare size [2, 1]
\* and differ in their mirror flag and in the directions and frames present

SourceInputs == {inp \in StructureInputs : "size" \in DOMAIN inp.template}

InitSource ==
    /\ op = ""
    /\ \E inp \in SourceInputs :
          /\ template = inp.template
          /\ palette = inp.palette
          /\ direction = inp.direction
          /\ frame_name = inp.frame_name
    /\ dot_key = <<>>
    /\ hex_colour = PyNone
    /\ z = 0
    /\ pixels = <<>>
    /\ dir_data = PyNone
    /\ IdleMirror
    /\ IdleComp
    /\ IdleExport
    /\ IdleBatch
    /\ IdleUtil
    /\ IdleLookup
    /\ IdleMega

NextSource == RenderFrame \/ RetroRenderFrame \/ GetDirectionData

SpecSource == InitSource /\ [][NextSource]_vars

\* ---- mirror_frame applied repeatedly to a drawn grid

\* Number of successive mirror_frame calls followed.
MaxMirrors == 2

InitMirror ==
    /\ op = ""
    /\ frame \in RaggedGrids
    /\ original = frame
    /\ mirrors = 0
    /\ IdleResolve
    /\ IdleRender
    /\ IdleComp
    /\ IdleExport
    /\ IdleBatch
    /\ IdleUtil
    /\ IdleLookup
    /\ IdleMega

MirrorFrame ==
    /\ mirrors < MaxMirrors
    /\ op' = "mirror_frame"
    /\ frame' = mirror_frame(frame)
    /\ mirrors' = mirrors + 1
    /\ UNCHANGED <<original, resolveVars, renderVars, compVars>>
    /\ UNCHANGED exportVars
    /\ UNCHANGED batchVars
    /\ UNCHANGED utilVars
    /\ UNCHANGED lookupVars
    /\ UNCHANGED megaVars

NextMirror == MirrorFrame

SpecMirror == InitMirror /\ [][NextMirror]_vars

\* ---- mirror_util on drawn templates, and render_frame before and after

\* What a document can hold as "right" next to a left frame g: nothing, no
\* frame, the mirror of g, g itself, the mirror with a row more or a row less.
RightForms(g) ==
    {<<>>, [right |-> <<>>], [right |-> [idle |-> mirror_frame(g)]],
     [right |-> [idle |-> g]],
     [right |-> [idle |-> Append(mirror_frame(g), <<PyInt(0)>>)]],
     [right |-> [idle |-> SubSeq(mirror_frame(g), 1, Len(g) - 1)]]}

UtilGrids == SeqsUpTo(SeqsUpTo(RaggedCells, 2), 2)

UtilTemplates ==
    UNION {{mf @@ [template_id |-> "t", size |-> <<w, 2>>,
                   directions |-> rf @@ [left |-> [idle |-> g]]] :
               mf \in {<<>>, [mirror_right_from_left |-> TRUE]}, w \in 1..2,
               rf \in RightForms(g)} : g \in UtilGrids}
    \cup {[template_id |-> "t", size |-> <<w, 2>>, mirror_right_from_left |-> TRUE,
           directions |-> [down |-> [idle |-> g]]] :
             w \in 1..2, g \in UtilGrids}

InitUtil ==
    /\ op = ""
    /\ template \in UtilTemplates
    /\ palette = MixedPalette
    /\ direction = "right"
    /\ frame_name = "idle"
    /\ dot_key = <<>>
    /\ hex_colour = PyNone
    /\ z = 0
    /\ pixels = <<>>
    /\ dir_data = PyNone
    /\ IdleMirror
    /\ IdleComp
    /\ IdleExport
    /\ IdleBatch
    /\ IdleUtil
    /\ IdleLookup
    /\ IdleMega

\* add_right_direction(template_data): the document is changed in place.
AddRightDirection ==
    /\ op = ""
    /\ op' = "add_right_direction"
    /\ template' = add_right_direction(template)
    /\ expanded' = template'
    /\ UNCHANGED <<direction, frame_name, z, pixels, dir_data, expanded_pixels, verified,
                   resolveVars, mirrorVars, compVars, exportVars, batchVars,
                   lookupVars, megaVars>>

\* verify_mirror(template_data), on a document as drawn or after
\* add_right_direction.
VerifyMirror ==
    /\ op \in {"", "add_right_direction"}
    /\ op' = "verify_mirror"
    /\ verified' = verify_mirror(template)
    /\ UNCHANGED <<expanded, expanded_pixels, resolveVars, renderVars, mirrorVars,
                   compVars, exportVars, batchVars, lookupVars, megaVars>>

\* expand_template(template_path), before or after the template was rendered:
\* the file read stays as it is, the expanded document goes to another file.
ExpandTemplate ==
    /\ op \in {"", "retro_render_frame"}
    /\ op' = "expand_template"
    /\ expanded' = expand_template(template)
    /\ UNCHANGED <<expanded_pixels, verified, resolveVars, renderVars, mirrorVars,
                   compVars, exportVars, batchVars, lookupVars, megaVars>>

\* render_frame(expanded, palette_colors, "right", frame_name) of the retro
\* engine on the document expand_template wrote.
RenderExpanded ==
    /\ op = "expand_template"
    /\ expanded # PyNone
    /\ op' = "render_expanded"
    /\ expanded_pixels' = retro_render_frame(expanded, palette, direction, frame_name)
    /\ UNCHANGED <<expanded, verified, resolveVars, renderVars, mirrorVars,
                   compVars, exportVars, batchVars, lookupVars, megaVars>>

NextUtil ==
    \/ RetroRenderFrame
    \/ AddRightDirection
    \/ VerifyMirror
    \/ ExpandTemplate
    \/ RenderExpanded

SpecUtil == InitUtil /\ [][NextUtil]_vars

\* ---- the template lookup functions on drawn template directories

\* A template document that declares the id (or none), told apart by z_order.
LookupDoc(id, n) ==
    IF id = "" THEN [z_order |-> n] ELSE [template_id |-> id, z_order |-> n]

\* File stems and declared ids: "" stands for a document without template_id.
LookupNames == {"a", "b"}

\* base_dir whose first subdirectory has the files a.json and b.json, in any
\* subset, and whose second has at most one file; every file declares any id.
LookupDirs ==
    LET one(n, k) == {[names |-> <<nm>>, docs |-> <<LookupDoc(id, k)>>] :
                         nm \in {n}, id \in LookupNames \cup {""}}
        first == {[names |-> <<>>, docs |-> <<>>]} \cup one("a", 1) \cup one("b", 2)
                 \cup {[names |-> x.names \o y.names, docs |-> x.docs \o y.docs] :
                          x \in one("a", 1), y \in one("b", 2)}
        second == {[names |-> <<>>, docs |-> <<>>]} \cup one("a", 3) \cup one("b", 3)
    IN  {[templates |-> <<f.docs, s.docs, <<>>, <<>>>>,
          names |-> <<f.names, s.names, <<>>, <<>>>>] : f \in first, s \in second}

InitLookup ==
    /\ op = ""
    /\ base_dir \in LookupDirs
    /\ lookup_id \in LookupNames \cup {"c"}
    /\ lookups = <<>>
    /\ request = <<>>
    /\ layers = <<>>
    /\ walk_cycle = <<>>
    /\ canvas = <<0, 0>>
    /\ painted = <<>>
    /\ frames_dict = <<>>
    /\ raised = ""
    /\ IdleResolve
    /\ IdleRender
    /\ IdleMirror
    /\ IdleExport
    /\ IdleBatch
    /\ IdleUtil
    /\ IdleMega

\* compositor.load_template(template_id, base_dir), either engine; the result
\* of each lookup function is kept under its name.
LoadTemplate ==
    /\ "load_template" \notin DOMAIN lookups
    /\ op' = "load_template"
    /\ lookups' = lookups @@ ("load_template" :> load_template(lookup_id, base_dir.templates))
    /\ UNCHANGED <<lookup_id, resolveVars, renderVars, mirrorVars, compVars, exportVars,
                   batchVars, utilVars, megaVars>>

\* sheet_exporter._find_template(template_id, base_dir)
FindTemplate ==
    /\ "_find_template" \notin DOMAIN lookups
    /\ op' = "_find_template"
    /\ lookups' = lookups @@ ("_find_template" :> _find_template(lookup_id, base_dir))
    /\ UNCHANGED <<lookup_id, resolveVars, renderVars, mirrorVars, compVars, exportVars,
                   batchVars, utilVars, megaVars>>

\* batch_generator._find_template_local(template_id, base_dir)
FindTemplateLocal ==
    /\ "_find_template_local" \notin DOMAIN lookups
    /\ op' = "_find_template_local"
    /\ lookups' = lookups @@ ("_find_template_local" :>
                                  _find_template_local(lookup_id, base_dir))
    /\ UNCHANGED <<lookup_id, resolveVars, renderVars, mirrorVars, compVars, exportVars,
                   batchVars, utilVars, megaVars>>

NextLookup == LoadTemplate \/ FindTemplate \/ FindTemplateLocal

SpecLookup == InitLookup /\ [][NextLookup]_vars

\* ---- composite_loadout and composite_npc on drawn requests and documents

HexC == <<"#", "0", "0", "F", "F", "7", "f">>

CapeBase == <<"c", "a", "p", "e", ".", "b", "a", "s", "e">>

BaseKey == <<"b", "a", "s", "e">>

CompositePalette ==
    PyDict((<<"s", "k", "i", "n">> :>
               PyDict((BaseKey :> PyStr(HexA)) @@ (<<"d", "a", "r", "k">> :> PyStr(HexB))))
           @@ (<<"c", "a", "p", "e">> :> PyDict((BaseKey :> PyStr(HexC)))))

\* A one-row grid of two cells.
Row2(a, b) == <<<<a, b>>>>

\* Body documents: with or without z_order and an override for up.
BodyTemplates ==
    {zf @@ ov @@ [template_id |-> "body", size |-> <<2, 1>>,
                  walk_cycle |-> <<"idle", "walk_1">>,
                  directions |-> [d \in Directions |-> [idle |-> g, walk_1 |-> g]]] :
        zf \in {<<>>, [z_order |-> 1]},
        ov \in {<<>>, [z_order_override |-> [up |-> 5]]},
        g \in {Row2(PyStr(SkinBase), PyStr(SkinBase)), Row2(PyStr(SkinBase), PyInt(0))}}

CapeTemplates ==
    {zf @@ ov @@ [template_id |-> "cape", size |-> <<2, 1>>,
                  directions |-> [d \in Directions |-> [idle |-> g]]] :
        zf \in {<<>>, [z_order |-> 1], [z_order |-> 2]},
        ov \in {<<>>, [z_order_override |-> [up |-> 0]],
                [z_order_override |-> [down |-> 5, left |-> 1]]},
        g \in {Row2(PyStr(SkinDark), PyStr(SkinDark)), Row2(PyInt(0), PyStr(SkinDark))}}

HelmTemplates ==
    {zf @@ ov @@ [template_id |-> "helm", size |-> <<2, 1>>,
                  directions |-> [d \in Directions |-> [idle |-> g]]] :
        zf \in {[z_order |-> 0], [z_order |-> 1], [z_order |-> 2]},
        ov \in {<<>>, [z_order_override |-> [up |-> 1]]},
        g \in {Row2(PyStr(CapeBase), PyStr(CapeBase)), Row2(PyStr(CapeBase), PyInt(0))}}

\* base_dir of the metz engine: the master palette and the four template
\* subdirectories in search order.
MetzBaseDirs ==
    {[master_palette |-> CompositePalette,
      templates |-> <<<<b>>, <<c>>, <<>>, <<h>>>>] :
        b \in BodyTemplates, c \in CapeTemplates, h \in HelmTemplates}

Loadouts ==
    {[loadout_id |-> "l", body |-> "body", equipment |-> eq] :
        eq \in {<<>>, <<"cape">>, <<"cape", "helm">>, <<"helm", "cape">>,
                <<"cape", "ghost", "helm">>}}
    \cup {[loadout_id |-> "l", body |-> "body"],
          [loadout_id |-> "l", body |-> "nobody", equipment |-> <<"cape">>]}

PaletteFile ==
    <<[palette_id |-> "skin", colors |-> PyDict((BaseKey :> PyStr(HexA)))],
      [palette_id |-> "cloth", colors |-> PyDict((BaseKey :> PyStr(HexB)))],
      [palette_id |-> "hairp", colors |-> PyDict((BaseKey :> PyStr(HexC)))]>>

RetroBody ==
    [template_id |-> "rbody", size |-> <<2, 1>>, walk_cycle |-> <<"idle">>,
     directions |-> [d \in Directions |-> [idle |-> Row2(PyStr(BaseKey), PyStr(BaseKey))]]]

ShirtTemplates ==
    {zf @@ ov @@ [template_id |-> "shirt", size |-> <<2, 1>>,
                  directions |-> [d \in Directions |-> [idle |-> g]]] :
        zf \in {<<>>, [z_order |-> 3]},
        ov \in {<<>>, [z_order_override |-> [up |-> 0]]},
        g \in {Row2(PyStr(BaseKey), PyStr(BaseKey)), Row2(PyInt(0), PyStr(BaseKey))}}

HairTemplates ==
    {[template_id |-> "hair", size |-> <<2, 1>>,
      directions |-> [d \in Directions |-> [idle |-> g]]] :
        g \in {Row2(PyStr(BaseKey), PyStr(BaseKey)), Row2(PyStr(BaseKey), PyInt(0))}}

\* base_dir of the retro engine: the four template subdirectories in search
\* order and the palette files.
RetroBaseDirs ==
    {[templates |-> <<<<RetroBody>>, <<sh>>, <<ha>>, <<>>>>,
      palettes |-> <<PaletteFile>>] :
        sh \in ShirtTemplates, ha \in HairTemplates}

\* The ways a layer states (or omits) its z_order.
LayerZ == {<<>>, [z_order |-> 0], [z_order |-> 1], [z_order |-> 2]}

NpcDefs ==
    {[npc_id |-> "n", sprite_size |-> <<2, 1>>,
      layers |-> IF rev
                 THEN <<z3 @@ [template |-> "hair", palette |-> "hairp"],
                        z2 @@ [template |-> "shirt", palette |-> "cloth"],
                        z1 @@ [template |-> "rbody", palette |-> "skin"]>>
                 ELSE <<z1 @@ [template |-> "rbody", palette |-> "skin"],
                        z2 @@ [template |-> "shirt", palette |-> "cloth"],
                        z3 @@ [template |-> "hair", palette |-> "hairp"]>>] :
        z1 \in LayerZ, z2 \in LayerZ, z3 \in LayerZ, rev \in BOOLEAN}
    \cup {[npc_id |-> "n", sprite_size |-> <<2, 1>>,
           layers |-> <<[template |-> "rbody", palette |-> "skin"],
                        [template |-> "ghost", palette |-> "cloth"]>>],
          [npc_id |-> "n", sprite_size |-> <<2, 1>>,
           layers |-> <<[template |-> "nobody", palette |-> "skin"],
                        [template |-> "shirt", palette |-> "cloth"]>>],
          [npc_id |-> "n", sprite_size |-> <<2, 1>>,
           layers |-> <<[template |-> "rbody", palette |-> "nopal"]>>]}

InitComposite ==
    /\ op = ""
    /\ \/ base_dir \in MetzBaseDirs /\ request \in Loadouts
       \/ base_dir \in RetroBaseDirs /\ request \in NpcDefs
    /\ layers = <<>>
    /\ walk_cycle = <<>>
    /\ canvas = <<0, 0>>
    /\ painted = <<>>
    /\ frames_dict = <<>>
    /\ raised = ""
    /\ IdleResolve
    /\ IdleRender
    /\ IdleMirror
    /\ IdleExport
    /\ IdleBatch
    /\ IdleUtil
    /\ IdleLookup
    /\ IdleMega

\* The call's outcome stored: the frames and the locals the frames were
\* built from, or the exception.
Returned(r) ==
    /\ raised' = r.raised
    /\ layers' = IF r.raised = "" THEN r.layers ELSE <<>>
    /\ walk_cycle' = IF r.raised = "" THEN r.walk_cycle ELSE <<>>
    /\ canvas' = IF r.raised = "" THEN r.canvas ELSE <<0, 0>>
    /\ painted' = IF r.raised = "" THEN r.painted ELSE <<>>
    /\ frames_dict' = IF r.raised = "" THEN r.frames_dict ELSE <<>>

CompositeLoadout ==
    /\ op = ""
    /\ op' = "composite_loadout"
    /\ \E r \in {composite_loadout(request, base_dir)} : Returned(r)
    /\ UNCHANGED <<base_dir, request, resolveVars, renderVars, mirrorVars>>
    /\ UNCHANGED exportVars
    /\ UNCHANGED batchVars
    /\ UNCHANGED utilVars
    /\ UNCHANGED lookupVars
    /\ UNCHANGED megaVars

CompositeNpc ==
    /\ op = ""
    /\ op' = "composite_npc"
    /\ \E r \in {composite_npc(request, base_dir)} : Returned(r)
    /\ UNCHANGED <<base_dir, request, resolveVars, renderVars, mirrorVars>>
    /\ UNCHANGED exportVars
    /\ UNCHANGED batchVars
    /\ UNCHANGED utilVars
    /\ UNCHANGED lookupVars
    /\ UNCHANGED megaVars

NextComposite == CompositeLoadout \/ CompositeNpc

SpecComposite == InitComposite /\ [][NextComposite]_vars

\* ---- the exporters on the frames of a composite

\* What a template declares as its walk cycle, if anything.
ExportCycles ==
    {<<>>, [walk_cycle |-> <<"idle">>], [walk_cycle |-> <<"idle", "walk_1">>],
     [walk_cycle |-> <<"idle", "walk_1", "idle", "walk_2", "idle">>]}

\* A body whose four directions differ; its walk frames are the idle grid
\* reversed when it moves, the idle grid itself when it does not.
ExportBody(id, cyc, moving, a, b) ==
    LET idle == [down |-> Row2(a, PyInt(0)), left |-> Row2(b, PyInt(0)),
                 right |-> Row2(PyInt(0), b), up |-> Row2(PyInt(0), a)]
        walk(d) == IF moving THEN <<reversed(idle[d][1])>> ELSE idle[d]
    IN  cyc @@ [template_id |-> id, size |-> <<2, 1>>,
                directions |-> [d \in Directions |->
                                   [idle |-> idle[d], walk_1 |-> walk(d),
                                    walk_2 |-> walk(d)]]]

ExportCape ==
    [template_id |-> "cape", size |-> <<2, 1>>, z_order |-> 1,
     directions |-> [d \in Directions |-> [idle |-> Row2(PyInt(0), PyStr(CapeBase))]]]

ExportMetzDirs ==
    {[master_palette |-> CompositePalette,
      templates |-> <<<<ExportBody("body", cyc, moving, PyStr(SkinBase), PyStr(SkinDark))>>,
                      <<ExportCape>>, <<>>, <<>>>>] :
        cyc \in ExportCycles, moving \in BOOLEAN}

ExportLoadouts ==
    {[loadout_id |-> "l", body |-> "body"],
     [loadout_id |-> "l", body |-> "body", equipment |-> <<"cape", "ghost">>]}

DarkKey == <<"d", "a", "r", "k">>

ExportPaletteFile ==
    <<[palette_id |-> "skin",
       colors |-> PyDict((BaseKey :> PyStr(HexA)) @@ (DarkKey :> PyStr(HexB)))]>>

ExportRetroDirs ==
    {[templates |-> <<<<ExportBody("rbody", cyc, moving, PyStr(BaseKey), PyStr(DarkKey))>>,
                      <<>>, <<>>, <<>>>>,
      palettes |-> <<ExportPaletteFile>>] :
        cyc \in ExportCycles, moving \in BOOLEAN}

ExportNpcDefs ==
    {an @@ [npc_id |-> "n", sprite_size |-> <<2, 1>>,
            layers |-> <<[template |-> "rbody", palette |-> "skin", z_order |-> 0]>>] :
        an \in {<<>>, [animation |-> [frame_order |-> <<"walk_1", "idle">>,
                                      walk_speed_fps |-> 8]]}}

\* scale arguments
Scales == {1, 2}

\* fps arguments
FpsValues == {8, 12}

InitExport ==
    /\ op = ""
    /\ \/ base_dir \in ExportMetzDirs /\ request \in ExportLoadouts
       \/ base_dir \in ExportRetroDirs /\ request \in ExportNpcDefs
    /\ layers = <<>>
    /\ walk_cycle = <<>>
    /\ canvas = <<0, 0>>
    /\ painted = <<>>
    /\ frames_dict = <<>>
    /\ raised = ""
    /\ IdleResolve
    /\ IdleRender
    /\ IdleMirror
    /\ IdleExport
    /\ IdleBatch
    /\ IdleUtil
    /\ IdleLookup
    /\ IdleMega

\* _build_frames_standalone on the NPC definition.
BuildFramesStandalone ==
    /\ op = ""
    /\ "layers" \in DOMAIN request
    /\ op' = "_build_frames_standalone"
    /\ \E r \in {_build_frames_standalone(request, base_dir)} : Returned(r)
    /\ UNCHANGED <<base_dir, request, resolveVars, renderVars, mirrorVars>>
    /\ UNCHANGED exportVars
    /\ UNCHANGED batchVars
    /\ UNCHANGED utilVars
    /\ UNCHANGED lookupVars
    /\ UNCHANGED megaVars

\* A renderer returned frames_dict, or the caller built one, and no exporter
\* has run on it yet.
HasFrames ==
    \/ /\ op \in {"composite_loadout", "composite_npc", "_build_frames_standalone"}
       /\ raised = ""
    \/ /\ op = ""
       /\ frames_dict # <<>>

\* The composited frames as the PIL images the exporters receive.
FramesAsImages ==
    [d \in DOMAIN frames_dict |->
        [k \in 1..Len(frames_dict[d]) |-> Image(canvas[1], canvas[2], frames_dict[d][k])]]

\* export_spritesheet of either compositor module.
ExportSpritesheet ==
    /\ HasFrames
    /\ \E s \in Scales :
          /\ scale' = s
          /\ sheet' = export_spritesheet(FramesAsImages, s)
    /\ op' = "export_spritesheet"
    /\ stores' = {}
    /\ UNCHANGED <<gif, doll, resolveVars, renderVars, mirrorVars, compVars>>
    /\ UNCHANGED batchVars
    /\ UNCHANGED utilVars
    /\ UNCHANGED lookupVars
    /\ UNCHANGED megaVars

ExportPreview ==
    /\ HasFrames
    /\ \E s \in Scales :
          /\ scale' = s
          /\ sheet' = export_preview(FramesAsImages, s)
    /\ op' = "export_preview"
    /\ stores' = {}
    /\ UNCHANGED <<gif, doll, resolveVars, renderVars, mirrorVars, compVars>>
    /\ UNCHANGED batchVars
    /\ UNCHANGED utilVars
    /\ UNCHANGED lookupVars
    /\ UNCHANGED megaVars

\* batch_export's sheet of one NPC: _create_spritesheet, then the upscale.
CreateSpritesheet ==
    /\ HasFrames
    /\ \E s \in Scales :
          /\ scale' = s
          /\ sheet' = _create_spritesheet(FramesAsImages, canvas, s)
    /\ op' = "_create_spritesheet"
    /\ stores' = {}
    /\ UNCHANGED <<gif, doll, resolveVars, renderVars, mirrorVars, compVars>>
    /\ UNCHANGED batchVars
    /\ UNCHANGED utilVars
    /\ UNCHANGED lookupVars
    /\ UNCHANGED megaVars

CreateAnimationPreview ==
    /\ HasFrames
    /\ \E d \in Directions, s \in Scales, fps \in FpsValues, folds \in BOOLEAN :
          /\ direction' = d
          /\ scale' = s
          /\ gif' = create_animation_preview(FramesAsImages, d, s, fps, folds)
    /\ op' = "create_animation_preview"
    /\ stores' = {}
    /\ UNCHANGED <<sheet, doll, resolveVars, template, frame_name, z, pixels, dir_data,
                   mirrorVars, compVars>>
    /\ UNCHANGED batchVars
    /\ UNCHANGED utilVars
    /\ UNCHANGED lookupVars
    /\ UNCHANGED megaVars

ExportWalkGifs ==
    /\ HasFrames
    /\ \E s \in Scales, fps \in FpsValues, has_font \in BOOLEAN, folds \in BOOLEAN :
          /\ scale' = s
          /\ gif' = export_walk_gifs(FramesAsImages, s, fps, has_font, folds)
    /\ op' = "export_walk_gifs"
    /\ stores' = {}
    /\ UNCHANGED <<sheet, doll, resolveVars, renderVars, mirrorVars, compVars>>
    /\ UNCHANGED batchVars
    /\ UNCHANGED utilVars
    /\ UNCHANGED lookupVars
    /\ UNCHANGED megaVars

\* export_paper_doll on the loadout that was composited; stores records the
\* load_template and load_master_palette calls it makes.
ExportPaperDoll ==
    /\ HasFrames
    /\ op = "composite_loadout"
    /\ \E s \in Scales, has_font \in BOOLEAN :
          /\ scale' = s
          /\ doll' = export_paper_doll(request, base_dir, s, has_font)
    /\ op' = "export_paper_doll"
    /\ stores' = {"templates"}
                     \cup (IF found_templates(<<request.body>>
                                                  \o get(request, "equipment", <<>>),
                                              base_dir.templates) # <<>>
                           THEN {"palette"}
                           ELSE {})
    /\ UNCHANGED <<sheet, gif, resolveVars, renderVars, mirrorVars, compVars>>
    /\ UNCHANGED batchVars
    /\ UNCHANGED utilVars
    /\ UNCHANGED lookupVars
    /\ UNCHANGED megaVars

NextExport ==
    \/ CompositeLoadout
    \/ CompositeNpc
    \/ BuildFramesStandalone
    \/ ExportSpritesheet
    \/ ExportPreview
    \/ CreateSpritesheet
    \/ CreateAnimationPreview
    \/ ExportWalkGifs
    \/ ExportPaperDoll

SpecExport == InitExport /\ [][NextExport]_vars

\* ---- the compositors on a layer whose template size is not the canvas size

\* The canvas: the body template's size, or the request's sprite_size.
MismatchCanvas == <<MaxDim, MaxDim>>

\* Sizes a layer template declares: smaller than, equal to and larger than
\* the canvas in either dimension.
LayerSizes == (1..(MaxDim + 1)) \X (1..(MaxDim + 1))

\* A grid of exactly w x h cells that has the key in every cell, in the cells
\* of a checkerboard, or in its first column.
PatternGrid(w, h, pattern, key) ==
    [y \in 1..h |->
        [x \in 1..w |->
            IF \/ pattern = "full"
               \/ pattern = "checker" /\ (x + y) % 2 = 0
               \/ pattern = "column" /\ x = 1
            THEN key
            ELSE PyInt(0)]]

Patterns == {"full", "checker", "column"}

\* A template with the same grid for "idle" in every direction.
SizedTemplate(id, wh, pattern, key, more) ==
    more @@ [template_id |-> id, size |-> wh,
             directions |-> [d \in Directions |->
                                [idle |-> PatternGrid(wh[1], wh[2], pattern, key)]]]

MismatchMetzDirs ==
    {[master_palette |-> CompositePalette,
      templates |-> <<<<SizedTemplate("body", MismatchCanvas, bp, PyStr(SkinBase),
                                      [walk_cycle |-> <<"idle">>])>>,
                      <<SizedTemplate("cape", wh, cp, PyStr(CapeBase), [z_order |-> 1])>>,
                      <<>>, <<>>>>] :
        bp \in {"full", "column"}, wh \in LayerSizes, cp \in Patterns}

MismatchRetroDirs ==
    {[templates |-> <<<<SizedTemplate("rbody", MismatchCanvas, bp, PyStr(BaseKey),
                                      [walk_cycle |-> <<"idle">>])>>,
                      <<SizedTemplate("shirt", wh, cp, PyStr(BaseKey), <<>>)>>,
                      <<>>, <<>>>>,
      palettes |-> <<PaletteFile>>] :
        bp \in {"full", "column"}, wh \in LayerSizes, cp \in Patterns}

MismatchLoadout == [loadout_id |-> "l", body |-> "body", equipment |-> <<"cape">>]

MismatchNpc ==
    [npc_id |-> "n", sprite_size |-> MismatchCanvas,
     animation |-> [frame_order |-> <<"idle">>],
     layers |-> <<[template |-> "rbody", palette |-> "skin", z_order |-> 0],
                  [template |-> "shirt", palette |-> "cloth", z_order |-> 1]>>]

InitMismatch ==
    /\ op = ""
    /\ \/ base_dir \in MismatchMetzDirs /\ request = MismatchLoadout
       \/ base_dir \in MismatchRetroDirs /\ request = MismatchNpc
    /\ layers = <<>>
    /\ walk_cycle = <<>>
    /\ canvas = <<0, 0>>
    /\ painted = <<>>
    /\ frames_dict = <<>>
    /\ raised = ""
    /\ IdleResolve
    /\ IdleRender
    /\ IdleMirror
    /\ IdleExport
    /\ IdleBatch
    /\ IdleUtil
    /\ IdleLookup
    /\ IdleMega

\* composite_loadout on the loadouts, composite_npc and
\* _build_frames_standalone on the NPC definitions.
NextMismatch ==
    \/ "body" \in DOMAIN request /\ CompositeLoadout
    \/ "layers" \in DOMAIN request /\ CompositeNpc
    \/ BuildFramesStandalone

SpecMismatch == InitMismatch /\ [][NextMismatch]_vars

\* ---- the two NPC renderers of the batch generator on the same definitions

InitNpc ==
    /\ op = ""
    /\ \/ base_dir \in ExportRetroDirs /\ request \in ExportNpcDefs
       \/ base_dir \in MismatchRetroDirs /\ request = MismatchNpc
       \/ /\ base_dir \in RetroBaseDirs
          /\ request \in NpcDefs
          /\ \A k \in 1..Len(request.layers) : "z_order" \notin DOMAIN request.layers[k]
    /\ layers = <<>>
    /\ walk_cycle = <<>>
    /\ canvas = <<0, 0>>
    /\ painted = <<>>
    /\ frames_dict = <<>>
    /\ raised = ""
    /\ IdleResolve
    /\ IdleRender
    /\ IdleMirror
    /\ IdleExport
    /\ IdleBatch
    /\ IdleUtil
    /\ IdleLookup
    /\ IdleMega

\* _render_npc_standalone(npc_def, base_dir)
RenderNpcStandalone ==
    /\ op = ""
    /\ op' = "_render_npc_standalone"
    /\ \E r \in {_render_npc_standalone(request, base_dir)} : Returned(r)
    /\ UNCHANGED <<base_dir, request, resolveVars, renderVars, mirrorVars>>
    /\ UNCHANGED exportVars
    /\ UNCHANGED batchVars
    /\ UNCHANGED utilVars
    /\ UNCHANGED lookupVars
    /\ UNCHANGED megaVars

NextNpc == CompositeNpc \/ RenderNpcStandalone

SpecNpc == InitNpc /\ [][NextNpc]_vars

\* ---- export_walk_gifs on any frames_dict of 1x1 frames

\* The frames a direction can have: none, one, two that differ, two alike.
GifFrames ==
    LET a == <<<<240, 192, 128, 255>>>>
        b == <<<<26, 43, 255, 255>>>>
    IN  {<<>>, <<a>>, <<a, b>>, <<a, a>>}

\* frames_dict with any subset of the directions as keys.
GifFrameDicts ==
    UNION {[present -> GifFrames] : present \in SUBSET Directions} \ {<<>>}

InitGifs ==
    /\ op = ""
    /\ frames_dict \in GifFrameDicts
    /\ canvas = <<1, 1>>
    /\ base_dir = <<>>
    /\ request = <<>>
    /\ layers = <<>>
    /\ walk_cycle = <<>>
    /\ painted = <<>>
    /\ raised = ""
    /\ IdleResolve
    /\ IdleRender
    /\ IdleMirror
    /\ IdleExport
    /\ IdleBatch
    /\ IdleUtil
    /\ IdleLookup
    /\ IdleMega

NextGifs == ExportWalkGifs

SpecGifs == InitGifs /\ [][NextGifs]_vars

\* ---- generate_batch and generate_random_npc called one after the other

MaxBatchCalls == 3

MaxCount == 2

Name(c) == PyStr(<<c>>)

\* Two bodies and an optional hat in two colours: six combinations of layers.
TwoBodies ==
    [generator_id |-> PyStr(<<"g">>),
     body_templates |-> <<Name("a"), Name("b")>>,
     clothing_options |-> <<Name("t")>>,
     hair_options |-> <<Name("h")>>,
     accessory_options |-> <<PyNone, Name("x")>>,
     skin_palettes |-> <<Name("s")>>,
     hair_palettes |-> <<Name("r")>>,
     clothing_palettes |-> <<Name("c")>>,
     accessory_palettes |-> <<Name("y"), Name("z")>>]

\* No generator_id and no accessory_options; names that hold the ":" of the
\* signature: body "a" with skin "b:c" and body "a:b" with skin "c".
ColonNames ==
    [body_templates |-> <<Name("a"), PyStr(<<"a", ":", "b">>)>>,
     clothing_options |-> <<Name("t")>>,
     hair_options |-> <<Name("h")>>,
     skin_palettes |-> <<PyStr(<<"b", ":", "c">>), Name("c")>>,
     hair_palettes |-> <<Name("r")>>,
     clothing_palettes |-> <<Name("c")>>]

\* A generator whose hair pool is empty.
NoHair ==
    [generator_id |-> PyStr(<<"g">>),
     body_templates |-> <<Name("a"), Name("b")>>,
     hair_options |-> <<>>]

\* One option in every pool: a single combination of layers.
OneBody ==
    [generator_id |-> PyStr(<<"g">>),
     body_templates |-> <<Name("a")>>,
     clothing_options |-> <<Name("t")>>,
     hair_options |-> <<Name("h")>>,
     skin_palettes |-> <<Name("s")>>,
     hair_palettes |-> <<Name("r")>>,
     clothing_palettes |-> <<Name("c")>>]

BatchConfigs == {TwoBodies, ColonNames, NoHair, OneBody}

Counts == -1..MaxCount

Seeds == {PyInt(9), PyInt(21), PyNone}

\* What the system may seed a generator with.
Urandom == {4, 7}

\* The calls drawn: the largest count on every generator with seed 9, on
\* TwoBodies with every seed, and the counts that ask for nothing on TwoBodies.
BatchArgs ==
    {a \in [generator_config : BatchConfigs, count : Counts, seed : Seeds] :
        \/ a.count = MaxCount /\ (a.seed = PyInt(9) \/ a.generator_config = TwoBodies)
        \/ a.count <= 0 /\ a.seed = PyInt(9) /\ a.generator_config = TwoBodies}

\* The generators generate_random_npc is called on by itself.
NpcConfigs == {TwoBodies}

InitBatch ==
    /\ op = ""
    /\ _batch_counter = 0
    /\ random_state \in Urandom
    /\ history = <<>>
    /\ IdleResolve
    /\ IdleRender
    /\ IdleMirror
    /\ IdleComp
    /\ IdleExport
    /\ IdleUtil
    /\ IdleLookup
    /\ IdleMega

\* generate_batch(generator_config, count, seed)
GenerateBatch ==
    /\ Len(history) < MaxBatchCalls
    /\ \E a \in BatchArgs, urandom \in Urandom :
        \E r \in {generate_batch(a.generator_config, a.count, a.seed, urandom,
                                 _batch_counter)} :
            /\ _batch_counter' = r.counter
            /\ history' = Append(history,
                   [fn |-> "generate_batch", generator_config |-> a.generator_config,
                    count |-> a.count, seed |-> a.seed,
                    counter_before |-> _batch_counter, raised |-> r.raised,
                    attempts |-> r.attempts, returned |-> r.npcs])
    /\ op' = "generate_batch"
    /\ UNCHANGED <<random_state, resolveVars, renderVars, mirrorVars, compVars,
                   exportVars>>
    /\ UNCHANGED utilVars
    /\ UNCHANGED lookupVars
    /\ UNCHANGED megaVars

\* generate_random_npc(generator_config) with rng left None: the shared generator.
GenerateRandomNpc ==
    /\ Len(history) < MaxBatchCalls
    /\ \E generator_config \in NpcConfigs :
        \E r \in {generate_random_npc(generator_config, random_state, _batch_counter)} :
            /\ _batch_counter' = r.counter
            /\ random_state' = r.rng
            /\ history' = Append(history,
                   [fn |-> "generate_random_npc", generator_config |-> generator_config,
                    count |-> 1, seed |-> PyNone,
                    counter_before |-> _batch_counter, raised |-> r.raised,
                    attempts |-> 1,
                    returned |-> IF r.raised = "" THEN <<r.npc>> ELSE <<>>])
    /\ op' = "generate_random_npc"
    /\ UNCHANGED <<resolveVars, renderVars, mirrorVars, compVars, exportVars>>
    /\ UNCHANGED utilVars
    /\ UNCHANGED lookupVars
    /\ UNCHANGED megaVars

NextBatch == GenerateBatch \/ GenerateRandomNpc

SpecBatch == InitBatch /\ [][NextBatch]_vars


\* ------------------------------------------------------------------ claims

RECURSIVE Join(_)
\* The segments joined again with "." between them.
Join(parts) ==
    IF Len(parts) = 1
    THEN parts[1]
    ELSE parts[1] \o <<".">> \o Join(Tail(parts))

Missing == [t |-> "missing"]

\* The value reached by indexing pal with each segment in turn, Missing as
\* soon as a segment is applied to a non-mapping or is not a key of it.
Reached(pal, parts) ==
    LET at[i \in 0..Len(parts)] ==
            IF i = 0
            THEN pal
            ELSE IF at[i - 1].t = "dict" /\ parts[i] \in DOMAIN at[i - 1].m
                 THEN at[i - 1].m[parts[i]]
                 ELSE Missing
    IN  at[Len(parts)]

\* C6: resolve_color returns the string reached when every dot-separated
\* segment of the key indexes into a mapping and the value reached is a
\* string; in every other case (missing segment, segment applied to a
\* non-mapping, key stopping at a group or a non-string) it returns None.
C6_ResolveAllOrNothing ==
    op = "resolve_color" =>
        LET parts == split(dot_key)
            end == Reached(palette, parts)
        IN  /\ Join(parts) = dot_key
            /\ \A i \in 1..Len(parts) : "." \notin Range(parts[i])
            /\ hex_colour = IF end.t = "str" THEN end ELSE PyNone

\* A two-segment key that resolves through a group to its colour.
C6_Witness ==
    /\ op = "resolve_color"
    /\ Len(split(dot_key)) = 2
    /\ palette.t = "dict"
    /\ hex_colour = PyStr(HexA)

\* C5: get_z_order returns the override for the direction when the template
\* has one, else the template's z_order, else 0; z_order=2 with
\* z_order_override={up:5} gives 5 for up and 2 for down, left and right.
C5_EffectiveZ ==
    op = "get_z_order" =>
        /\ z = IF "z_order_override" \in DOMAIN template
                    /\ direction \in DOMAIN template.z_order_override
               THEN template.z_order_override[direction]
               ELSE IF "z_order" \in DOMAIN template
                    THEN template.z_order
                    ELSE 0
        /\ ("z_order" \in DOMAIN template /\ template.z_order = 2
                /\ "z_order_override" \in DOMAIN template
                /\ template.z_order_override = [d \in {"up"} |-> 5])
            => z = IF direction = "up" THEN 5 ELSE 2

\* The spec's example, asked for a direction the override does not name.
C5_Witness ==
    /\ op = "get_z_order"
    /\ "z_order" \in DOMAIN template /\ template.z_order = 2
    /\ "z_order_override" \in DOMAIN template
    /\ template.z_order_override = [d \in {"up"} |-> 5]
    /\ direction = "down"
    /\ z = 2

\* ---- render_frame

RenderOps == {"render_frame", "retro_render_frame"}

\* The declared size the engine that ran uses for the template.
DeclaredSize ==
    frame_size(template, IF op = "render_frame" THEN MetzDefaultSize ELSE RetroDefaultSize)

\* The direction whose grid is read, after the mirror substitution.
SourceDirection ==
    IF direction = "right" /\ "mirror_right_from_left" \in DOMAIN template
           /\ template.mirror_right_from_left
    THEN "left"
    ELSE direction

HasGrid(dir) ==
    /\ "directions" \in DOMAIN template
    /\ dir \in DOMAIN template.directions
    /\ frame_name \in DOMAIN template.directions[dir]

\* The colour the engine that ran gives one cell.
CellColour(value) ==
    IF op = "render_frame" THEN metz_cell(palette, value) ELSE retro_cell(palette, value)

AllTransparent(px) == \A i \in 1..Len(px) : px[i] = <<0, 0, 0, 0>>

\* C1: render_frame returns exactly width*height pixels for any grid shape;
\* in an unmirrored frame, cell (x, y) of the grid lands at y*width + x when
\* it lies inside the declared size, cells outside it are dropped, and
\* positions the grid does not cover are transparent.
C1_BufferSize ==
    op \in RenderOps =>
        LET w == DeclaredSize[1]
            h == DeclaredSize[2]
        IN  /\ Len(pixels) = w * h
            /\ (HasGrid(direction) /\ SourceDirection = direction) =>
                  LET g == template.directions[direction][frame_name]
                  IN  \A y \in 0..(h - 1), x \in 0..(w - 1) :
                          pixels[y * w + x + 1] =
                              IF y < Len(g) /\ x < Len(g[y + 1])
                              THEN CellColour(g[y + 1][x + 1])
                              ELSE <<0, 0, 0, 0>>

\* A grid with more rows than the height and a first row longer than the
\* width, next to a later row shorter than the width.
C1_Witness ==
    /\ op = "render_frame"
    /\ HasGrid(direction)
    /\ LET g == template.directions[direction][frame_name]
       IN  /\ Len(g) = 2
           /\ DeclaredSize = <<1, 1>>
           /\ Len(g[1]) > 1
           /\ Len(g[2]) < 1
    /\ Len(pixels) = 1

\* C10: when the source direction (after the mirror substitution) or the
\* frame name is absent, render_frame returns width*height transparent
\* pixels; a mirroring template without a left entry renders right so.
C10_AbsentIsTransparent ==
    (op \in RenderOps /\ ~HasGrid(SourceDirection)) =>
        /\ Len(pixels) = DeclaredSize[1] * DeclaredSize[2]
        /\ AllTransparent(pixels)

\* A mirroring template with an explicit right entry and no left entry,
\* rendered right.
C10_Witness ==
    /\ op = "render_frame"
    /\ direction = "right"
    /\ SourceDirection = "left"
    /\ HasGrid("right")
    /\ "left" \notin DOMAIN template.directions
    /\ Len(pixels) = 2
    /\ AllTransparent(pixels)

HexDigitsUpper ==
    <<"0", "1", "2", "3", "4", "5", "6", "7", "8", "9", "A", "B", "C", "D", "E", "F">>

HexDigitsLower ==
    <<"0", "1", "2", "3", "4", "5", "6", "7", "8", "9", "a", "b", "c", "d", "e", "f">>

\* The number a hexadecimal digit stands for.
DigitValue(c) ==
    (CHOOSE i \in 1..16 : HexDigitsUpper[i] = c \/ HexDigitsLower[i] = c) - 1

\* The byte two hexadecimal digits stand for.
ByteValue(hi, lo) == 16 * DigitValue(hi) + DigitValue(lo)

\* (R, G, B, 255) of a "#RRGGBB" string.
ExpectedRGBA(h) ==
    <<ByteValue(h[2], h[3]), ByteValue(h[4], h[5]), ByteValue(h[6], h[7]), 255>>

IsExact(g, w, h) == Len(g) = h /\ \A r \in 1..h : Len(g[r]) = w

\* C8: in an unmirrored metz render of a grid of exactly h rows by w
\* columns, buffer[y*w + x] is (0,0,0,0) for a sentinel cell and
\* (R,G,B,255) of the resolved "#RRGGBB" string for a resolvable key.
C8_CellToPixel ==
    (op = "render_frame" /\ HasGrid(direction) /\ SourceDirection = direction
        /\ IsExact(template.directions[direction][frame_name],
                   DeclaredSize[1], DeclaredSize[2])) =>
        LET w == DeclaredSize[1]
            h == DeclaredSize[2]
            g == template.directions[direction][frame_name]
        IN  \A y \in 0..(h - 1), x \in 0..(w - 1) :
                LET cell == g[y + 1][x + 1]
                    px == pixels[y * w + x + 1]
                IN  /\ (cell = PyInt(0) \/ cell = PyNone) => px = <<0, 0, 0, 0>>
                    /\ (cell.t = "str" /\ resolve_color(palette, cell.s).t = "str") =>
                           px = ExpectedRGBA(resolve_color(palette, cell.s).s)

\* The spec's end-to-end example.
C8_Witness ==
    /\ op = "render_frame"
    /\ palette = ExamplePalette
    /\ direction = "down"
    /\ template.size = <<2, 1>>
    /\ template.directions["down"]["idle"] = <<<<PyInt(0), PyStr(SkinBase)>>>>
    /\ pixels = <<<<0, 0, 0, 0>>, <<240, 192, 128, 255>>>>

\* C9 (as claimed): whenever the template has an explicit right entry,
\* rendering right uses that grid unmirrored, in render_frame of both
\* engines and in the exporter's _get_direction_data.
C9_ExplicitRightWins ==
    /\ (op \in RenderOps /\ direction = "right" /\ HasGrid("right")) =>
          LET g == template.directions["right"][frame_name]
              w == DeclaredSize[1]
              h == DeclaredSize[2]
          IN  pixels =
                  fit_total(concat(IF op = "render_frame"
                                   THEN metz_rows(g, palette, w, FALSE)
                                   ELSE retro_rows(g, palette, w, FALSE)),
                            w * h)
    /\ (op = "_get_direction_data" /\ direction = "right"
            /\ "directions" \in DOMAIN template
            /\ "right" \in DOMAIN template.directions) =>
          dir_data = template.directions["right"]

\* C24 (as claimed): in a mirrored render each resolved row is reversed first
\* and then padded or cut to the declared width, so the padding of a short row
\* is on the right and a long row keeps the first width cells of its reverse.
C24_ReverseThenFit ==
    (op \in RenderOps /\ is_mirrored(template, direction) /\ HasGrid("left")) =>
        LET g == template.directions["left"][frame_name]
            w == DeclaredSize[1]
            h == DeclaredSize[2]
            resolved(v) == IF op = "render_frame"
                           THEN metz_cell(palette, v)
                           ELSE retro_cell(palette, v)
            rows == [r \in 1..Len(g) |->
                        fit_width(reversed([c \in 1..Len(g[r]) |-> resolved(g[r][c])]), w)]
        IN  pixels = fit_total(concat(rows), w * h)

\* ---- mirror_frame

\* C7: mirror_frame keeps the number of rows and the length of each row,
\* reverses each row, and applied twice gives the grid back.
C7_MirrorInvolution ==
    /\ Len(frame) = Len(original)
    /\ \A r \in 1..Len(original) : Len(frame[r]) = Len(original[r])
    /\ mirrors = 1 =>
          \A r \in 1..Len(original) : \A c \in 1..Len(original[r]) :
              frame[r][c] = original[r][Len(original[r]) + 1 - c]
    /\ mirrors = 2 => frame = original

\* A grid with rows of different lengths, one of them not a palindrome,
\* after two flips.
C7_Witness ==
    /\ mirrors = 2
    /\ frame = original
    /\ \E r \in 1..Len(original) :
          Len(original[r]) = 2 /\ original[r][1] # original[r][2]
    /\ \E r1, r2 \in 1..Len(original) : Len(original[r1]) # Len(original[r2])

\* The cell is not a sentinel of the engine that ran and its lookup in the
\* palette gives no colour.
Unresolved(value) ==
    IF op = "render_frame"
    THEN /\ value \notin {PyInt(0), PyStr(<<"0">>), PyNone}
         /\ resolve_color(palette, str(value)) = PyNone
    ELSE /\ value \notin {PyInt(0), PyStr(<<"0">>)}
         /\ ~(value.t = "str" /\ palette.t = "dict" /\ value.s \in DOMAIN palette.m)

\* The grid with the sentinel 0 in place of every unresolved cell.
WithSentinels(g) ==
    [r \in 1..Len(g) |->
        [c \in 1..Len(g[r]) |-> IF Unresolved(g[r][c]) THEN PyInt(0) ELSE g[r][c]]]

\* The engine that ran, applied to the template with grid g as the frame read.
RenderedFrom(g) ==
    LET t == [template EXCEPT !.directions[SourceDirection][frame_name] = g]
    IN  IF op = "render_frame"
        THEN render_frame(t, palette, direction, frame_name)
        ELSE retro_render_frame(t, palette, direction, frame_name)

\* C11: render_frame returns a buffer for a grid with unresolved keys, the
\* buffer is the one the same grid gives with the sentinel in place of
\* every unresolved cell, and in an unmirrored frame the pixel of an
\* unresolved cell inside the declared size is (0,0,0,0).
C11_UnresolvedIsTransparent ==
    (op \in RenderOps /\ HasGrid(SourceDirection)) =>
        LET g == template.directions[SourceDirection][frame_name]
            w == DeclaredSize[1]
            h == DeclaredSize[2]
        IN  /\ pixels = RenderedFrom(WithSentinels(g))
            /\ SourceDirection = direction =>
                  \A y \in 0..(h - 1), x \in 0..(w - 1) :
                      (y < Len(g) /\ x < Len(g[y + 1]) /\ Unresolved(g[y + 1][x + 1]))
                          => pixels[y * w + x + 1] = <<0, 0, 0, 0>>

\* A row with a key whose shade is a number next to a key that resolves:
\* a transparent pixel and the colour.
C11_Witness ==
    /\ op = "render_frame"
    /\ palette = NumberShadePalette
    /\ HasGrid(direction)
    /\ SourceDirection = direction
    /\ template.directions[direction][frame_name]
           = <<<<PyStr(SkinDark), PyStr(SkinBase)>>>>
    /\ Unresolved(PyStr(SkinDark))
    /\ pixels = <<<<0, 0, 0, 0>>, <<240, 192, 128, 255>>>>

\* ---- compositing

\* The call returned frames.
Composited(name) == op = name /\ raised = ""

Engine == IF op = "composite_loadout" THEN "metz" ELSE "retro"

\* The stacking depth of a template facing dir: the override naming dir when
\* there is one, else z_order, else 0.
EffectiveZ(tmpl, dir) ==
    IF "z_order_override" \in DOMAIN tmpl /\ dir \in DOMAIN tmpl.z_order_override
    THEN tmpl.z_order_override[dir]
    ELSE IF "z_order" \in DOMAIN tmpl THEN tmpl.z_order ELSE 0

\* The z_order the request gives its k-th layer, 0 when it gives none.
LayerZOrder(k) ==
    IF "z_order" \in DOMAIN request.layers[k] THEN request.layers[k].z_order ELSE 0

\* The image of layer p (a position in layers) alone, on the canvas.
LayerImage(p, dir, f) ==
    putdata(canvas[1], canvas[2],
            render_by(Engine, layers[p].template, layers[p].palette, dir, walk_cycle[f]))

Opaque(px) == px[4] # 0

IsPermutation(order, n) ==
    Len(order) = n /\ \A p \in 1..n : \E k \in 1..n : order[k] = p

\* C2: at every coordinate of every composited frame the pixel is that of
\* the last layer in paint order that is opaque there, (0,0,0,0) when none is.
C2_PaintOver ==
    (op \in {"composite_loadout", "composite_npc"} /\ raised = "") =>
        \A d \in Directions : \A f \in 1..Len(walk_cycle) :
            /\ Len(frames_dict[d][f]) = canvas[1] * canvas[2]
            /\ \A i \in 1..(canvas[1] * canvas[2]) :
                  LET opq == {k \in 1..Len(painted[d]) :
                                 Opaque(LayerImage(painted[d][k], d, f)[i])}
                  IN  frames_dict[d][f][i] =
                          IF opq = {}
                          THEN <<0, 0, 0, 0>>
                          ELSE LayerImage(
                                   painted[d][CHOOSE k \in opq : \A j \in opq : j <= k],
                                   d, f)[i]

\* One frame shows all three cases: a coordinate where the last layer painted
\* is transparent and a lower layer shows through, one where the last layer
\* covers a lower opaque layer, and a frame with a coordinate no layer covers.
C2_Witness ==
    /\ Composited("composite_loadout")
    /\ Len(layers) = 3
    /\ \E d \in Directions :
          LET top == painted[d][3]
              low == painted[d][2]
          IN  /\ ~Opaque(LayerImage(top, d, 1)[1])
              /\ Opaque(LayerImage(low, d, 1)[1])
              /\ frames_dict[d][1][1] = LayerImage(low, d, 1)[1]
              /\ Opaque(LayerImage(top, d, 1)[2])
              /\ Opaque(LayerImage(low, d, 1)[2])
              /\ frames_dict[d][1][2] = LayerImage(top, d, 1)[2]
              /\ frames_dict[d][1][2] # LayerImage(low, d, 1)[2]
              /\ frames_dict[d][2][2] = <<0, 0, 0, 0>>

\* C3 (as claimed): in both compositors, for each direction, the layers are
\* painted in ascending order of the template's effective z for that direction.
C3_BothByEffectiveZ ==
    (op \in {"composite_loadout", "composite_npc"} /\ raised = "") =>
        \A d \in Directions : \A k \in 1..(Len(painted[d]) - 1) :
            EffectiveZ(layers[painted[d][k]].template, d)
                <= EffectiveZ(layers[painted[d][k + 1]].template, d)

\* C3 (amended): composite_loadout paints every loaded layer once, for each
\* direction in ascending order of the template's effective z for that
\* direction; composite_npc paints every layer once, in ascending order of
\* the z_order the NPC definition gives the layer (0 when absent), the same
\* order in all four directions.
C3_PaintOrder ==
    /\ Composited("composite_loadout") =>
          \A d \in Directions :
              /\ IsPermutation(painted[d], Len(layers))
              /\ \A k \in 1..(Len(layers) - 1) :
                    EffectiveZ(layers[painted[d][k]].template, d)
                        <= EffectiveZ(layers[painted[d][k + 1]].template, d)
    /\ Composited("composite_npc") =>
          \A d \in Directions :
              /\ IsPermutation(painted[d], Len(request.layers))
              /\ painted[d] = painted["down"]
              /\ \A k \in 1..(Len(layers) - 1) :
                    LayerZOrder(painted[d][k]) <= LayerZOrder(painted[d][k + 1])

\* Three layers whose order facing up differs from their order facing down
\* because of an override that names up.
C3_Witness ==
    /\ Composited("composite_loadout")
    /\ Len(layers) = 3
    /\ painted["up"] # painted["down"]
    /\ painted["left"] = painted["down"]
    /\ \E p \in 1..3 :
          /\ "z_order_override" \in DOMAIN layers[p].template
          /\ DOMAIN layers[p].template.z_order_override = {"up"}

\* C4: in composite_loadout, layers with the same effective z for a
\* direction are painted in request order (body, then equipment in list
\* order), so that among the opaque layers of greatest effective z at a
\* coordinate the later-listed one gives the pixel, in every frame.
C4_TiesKeepRequestOrder ==
    Composited("composite_loadout") =>
        \A d \in Directions :
            /\ \A k, l \in 1..Len(painted[d]) :
                  (k < l /\ EffectiveZ(layers[painted[d][k]].template, d)
                              = EffectiveZ(layers[painted[d][l]].template, d))
                      => painted[d][k] < painted[d][l]
            /\ \A f \in 1..Len(walk_cycle) : \A i \in 1..(canvas[1] * canvas[2]) :
                  LET opq == {p \in 1..Len(layers) : Opaque(LayerImage(p, d, f)[i])}
                      Z(p) == EffectiveZ(layers[p].template, d)
                  IN  opq # {} =>
                          frames_dict[d][f][i] =
                              LayerImage(CHOOSE p \in opq : \A q \in opq :
                                             Z(q) < Z(p) \/ (Z(q) = Z(p) /\ q <= p),
                                         d, f)[i]

\* The helm listed before the cape, both with the greatest effective z facing
\* down and both opaque at the first pixel: the cape, listed later, shows.
C4_Witness ==
    /\ Composited("composite_loadout")
    /\ "equipment" \in DOMAIN request
    /\ request.equipment = <<"helm", "cape">>
    /\ Len(layers) = 3
    /\ EffectiveZ(layers[2].template, "down") = EffectiveZ(layers[3].template, "down")
    /\ EffectiveZ(layers[1].template, "down") <= EffectiveZ(layers[3].template, "down")
    /\ painted["down"][3] = 3
    /\ Opaque(LayerImage(2, "down", 1)[1])
    /\ Opaque(LayerImage(3, "down", 1)[1])
    /\ frames_dict["down"][1][1] = LayerImage(3, "down", 1)[1]
    /\ frames_dict["down"][1][1] # LayerImage(2, "down", 1)[1]

\* The template ids the request names, the primary (body) one first.
RequestedTemplates ==
    IF op = "composite_loadout"
    THEN <<request.body>>
             \o (IF "equipment" \in DOMAIN request THEN request.equipment ELSE <<>>)
    ELSE [k \in 1..Len(request.layers) |-> request.layers[k].template]

\* No document under base_dir declares the template id.
TemplateMissing(id) ==
    \A c \in 1..Len(base_dir.templates) : \A k \in 1..Len(base_dir.templates[c]) :
        base_dir.templates[c][k].template_id # id

\* No palette entry under base_dir has the palette id.
PaletteMissing(id) ==
    \A c \in 1..Len(base_dir.palettes) : \A k \in 1..Len(base_dir.palettes[c]) :
        base_dir.palettes[c][k].palette_id # id

\* The call was given a request of its own shape and every palette it names
\* exists, so that only templates can be missing.
OnlyTemplatesCanMiss ==
    \/ /\ op = "composite_loadout"
       /\ "master_palette" \in DOMAIN base_dir
       /\ "body" \in DOMAIN request
    \/ /\ op = "composite_npc"
       /\ "layers" \in DOMAIN request
       /\ "palettes" \in DOMAIN base_dir
       /\ \A k \in 1..Len(request.layers) : ~PaletteMissing(request.layers[k].palette)

\* C12 (as claimed): in composite_loadout and composite_npc, a missing body
\* template raises FileNotFoundError and no frames are returned; with the
\* body found, missing other templates are skipped and the frames of all
\* four directions are returned from the layers that were found.
C12_MissingLayerPolicy ==
    OnlyTemplatesCanMiss =>
        IF TemplateMissing(RequestedTemplates[1])
        THEN raised = "FileNotFoundError" /\ frames_dict = <<>>
        ELSE /\ raised = ""
             /\ DOMAIN frames_dict = Directions
             /\ Len(layers) = Cardinality({k \in 1..Len(RequestedTemplates) :
                                              ~TemplateMissing(RequestedTemplates[k])})
             /\ \A p \in 1..Len(layers) : \E k \in 1..Len(RequestedTemplates) :
                    layers[p].template.template_id = RequestedTemplates[k]

\* ---- exporters

\* The direction files an animated export wrote, by direction.
LoopsWritten ==
    IF op = "create_animation_preview"
    THEN IF gif = PyNone THEN <<>> ELSE [d \in {direction} |-> gif]
    ELSE [d \in DOMAIN gif \cap Directions |-> gif[d]]

\* C13 (as claimed): a composite result has exactly the directions down,
\* left, right and up, each with len(walk_cycle) frames, the k-th being the
\* composite of the k-th frame name; and the animated loop written for a
\* direction holds exactly len(walk_cycle) frames with loop = 0.
C13_FramesPerCycle ==
    /\ (op \in {"composite_loadout", "composite_npc"} /\ raised = "") =>
          /\ DOMAIN frames_dict = {"down", "left", "right", "up"}
          /\ \A d \in DOMAIN frames_dict :
                /\ Len(frames_dict[d]) = Len(walk_cycle)
                /\ \A k \in 1..Len(walk_cycle) :
                      frames_dict[d][k] =
                          composite_frame(Engine, layers, painted[d], d, walk_cycle[k],
                                          canvas[1], canvas[2])
    /\ op \in {"create_animation_preview", "export_walk_gifs"} =>
          /\ DOMAIN LoopsWritten # {}
          /\ \A d \in DOMAIN LoopsWritten :
                /\ Len(LoopsWritten[d].frames) = Len(walk_cycle)
                /\ LoopsWritten[d].loop = 0

\* The document under base_dir that declares the template id.
DocOf(id) ==
    LET docs == concat(base_dir.templates)
    IN  docs[CHOOSE k \in 1..Len(docs) : docs[k].template_id = id]

\* The frame names a request calls for: its own animation.frame_order, else
\* the walk_cycle of its body template, else the default.
ExpectedCycle ==
    IF "animation" \in DOMAIN request /\ "frame_order" \in DOMAIN request.animation
    THEN request.animation.frame_order
    ELSE LET body == DocOf(RequestedTemplates[1])
         IN  IF "walk_cycle" \in DOMAIN body
             THEN body.walk_cycle
             ELSE <<"idle", "walk_1", "idle", "walk_2">>

\* C14 (as claimed): composite_npc, composite_loadout and
\* _build_frames_standalone build, for every direction, one frame per name
\* of the request's declared frame order when it declares one, else of the
\* body template's walk_cycle, else of idle, walk_1, idle, walk_2.
C14_FrameNames ==
    (op \in {"composite_loadout", "composite_npc", "_build_frames_standalone"}
        /\ raised = "") =>
        /\ walk_cycle = ExpectedCycle
        /\ \A d \in DOMAIN frames_dict : Len(frames_dict[d]) = Len(ExpectedCycle)

SheetOps == {"export_spritesheet", "export_preview", "_create_spritesheet"}

\* C15 (as claimed): a static sheet is len(walk_cycle) frames wide and four
\* frames high, and frame c of the r-th direction of down, left, right, up
\* fills the cell at (c*frame_w, r*frame_h), pixel for pixel (each pixel a
\* scale-by-scale block when upscaled), so frames neither overlap nor drop.
C15_SheetLayout ==
    op \in SheetOps =>
        LET rows == <<"down", "left", "right", "up">>
            frame_w == canvas[1]
            frame_h == canvas[2]
            s == IF scale > 1 THEN scale ELSE 1
        IN  /\ sheet.w = Len(walk_cycle) * frame_w * s
            /\ sheet.h = 4 * frame_h * s
            /\ \A r \in 0..3, c \in 0..(Len(walk_cycle) - 1) :
               \A x \in 0..(frame_w - 1), y \in 0..(frame_h - 1) :
               \A a \in 0..(s - 1), b \in 0..(s - 1) :
                   LET X == (c * frame_w + x) * s + a
                       Y == (r * frame_h + y) * s + b
                   IN  /\ X < sheet.w /\ Y < sheet.h
                       /\ sheet.data[Y * sheet.w + X + 1]
                              = frames_dict[rows[r + 1]][c + 1][y * frame_w + x + 1]

ExportOps ==
    SheetOps \cup {"create_animation_preview", "export_walk_gifs", "export_paper_doll"}

\* C16 (as claimed): no export operation, the paper-doll strip included,
\* loads a template or a palette, and none changes the frames it is given.
C16_ExportsArePure ==
    [][op' \in ExportOps => (stores' = {} /\ frames_dict' = frames_dict)]_vars

\* ---- batch_generator

\* The positions in history of the generate_batch calls that returned.
BatchesReturned ==
    {i \in 1..Len(history) :
        history[i].fn = "generate_batch" /\ history[i].raised = ""}

\* The (template, palette) pairs of a request, layer by layer.
Combination(npc) ==
    [k \in 1..Len(npc.layers) |-> <<npc.layers[k].template, npc.layers[k].palette>>]

\* The template and palette choices of a returned sequence, position by position.
Choices(npcs) == [i \in 1..Len(npcs) |-> Combination(npcs[i])]

\* Two calls were made with the same generator, count and seed.
SameArguments(i, j) ==
    /\ history[i].fn = "generate_batch"
    /\ history[j].fn = "generate_batch"
    /\ history[i].generator_config = history[j].generator_config
    /\ history[i].count = history[j].count
    /\ history[i].seed = history[j].seed

\* C17: two generate_batch calls with the same generator, count and seed (not
\* None) end the same way and return sequences of the same length with the same
\* template and palette choices in the same positions, whatever was called
\* before or between them.
C17_DeterministicInSeed ==
    \A i \in 1..Len(history), j \in 1..Len(history) :
        (SameArguments(i, j) /\ history[i].seed # PyNone)
            => /\ history[i].raised = history[j].raised
               /\ Choices(history[i].returned) = Choices(history[j].returned)

\* The same seeded batch of two requests ran before and after a call of
\* generate_random_npc that moved the shared generator and the counter.
C17_Witness ==
    /\ Len(history) = 3
    /\ SameArguments(1, 3)
    /\ history[1].seed # PyNone
    /\ Len(history[3].returned) = 2
    /\ history[2].fn = "generate_random_npc"
    /\ history[2].raised = ""
    /\ history[3].counter_before = 3

\* C18: no batch returned by generate_batch holds two requests with the same
\* combination of (template, palette) pairs over their layers.
C18_NoDuplicateCombination ==
    \A b \in BatchesReturned :
        \A i \in 1..Len(history[b].returned), j \in 1..Len(history[b].returned) :
            i # j => Combination(history[b].returned[i]) # Combination(history[b].returned[j])

\* A batch of two requests was returned after candidates were discarded.
C18_Witness ==
    \E b \in BatchesReturned :
        /\ Len(history[b].returned) = 2
        /\ history[b].attempts > 2

\* The candidates of a batch that were discarded.
Collisions(h) == h.attempts - Len(h.returned)

\* The distinct layer combinations the pools of a generator admit.
Admitted(generator_config) ==
    LET pool(i) == Range(get(generator_config, PoolKeys[i], PoolDefaults[i]))
        accessories ==
            {<<>> : a \in pool(4) \cap {PyNone}}
                \cup {<<<<a, p>>>> : a \in pool(4) \ {PyNone}, p \in pool(8)}
    IN  IF pool(8) # {}
        THEN {<<<<b, s>>, <<c, cp>>, <<h, hp>>>> \o acc :
                  b \in pool(1), s \in pool(5), c \in pool(2), cp \in pool(7),
                  h \in pool(3), hp \in pool(6), acc \in accessories}
        ELSE {}

\* C19 (as claimed, its last part): whenever the pools admit at least count
\* distinct combinations and fewer than count*10 attempts collide, generate_batch
\* returns exactly count requests.
C19_ExactlyCountWhenPoolsAdmit ==
    \A b \in BatchesReturned :
        LET h == history[b]
        IN  (/\ Cardinality(Admitted(h.generator_config)) >= h.count
             /\ Collisions(h) < h.count * 10)
                => Len(h.returned) = h.count

\* C19 (amended): generate_batch raises only when a pool is empty, never on a
\* collision; for count >= 0 it returns at most count requests, and fewer than
\* count only when all count*10 attempts were used, more than count*9 of them on
\* collisions; a negative count returns the empty list.
C19_UnderFulfilment ==
    \A b \in 1..Len(history) :
        LET h == history[b]
        IN  h.fn = "generate_batch" =>
                /\ h.raised # "" =>
                       \E i \in 1..8 :
                           get(h.generator_config, PoolKeys[i], PoolDefaults[i]) = <<>>
                /\ (h.raised = "" /\ h.count < 0) => h.returned = <<>>
                /\ (h.raised = "" /\ h.count >= 0) =>
                       /\ Len(h.returned) <= h.count
                       /\ Len(h.returned) < h.count =>
                              /\ h.attempts = h.count * 10
                              /\ Collisions(h) > h.count * 9
                       /\ Collisions(h) <= h.count * 9 => Len(h.returned) = h.count

\* A batch came back one request short although the pools admit six
\* combinations: every attempt after the first one collided.
C19_Witness ==
    \E b \in BatchesReturned :
        /\ history[b].count = 2
        /\ Len(history[b].returned) = 1
        /\ Cardinality(Admitted(history[b].generator_config)) = 6
        /\ Collisions(history[b]) = 19

\* i written with three decimal digits, for i below 1000.
ThreeDigits(i) ==
    <<DecimalDigits[((i \div 100) % 10) + 1], DecimalDigits[((i \div 10) % 10) + 1],
      DecimalDigits[(i % 10) + 1]>>

\* C20: in every generate_batch call, whatever was called before it, the i-th
\* returned request (i from 1) has the id <generator_id>_<i as three digits>.
C20_SequentialIds ==
    \A b \in BatchesReturned :
        LET h == history[b]
            generator_id ==
                IF "generator_id" \in DOMAIN h.generator_config
                THEN h.generator_config.generator_id.s
                ELSE <<"n", "p", "c">>
        IN  \A i \in 1..Len(h.returned) :
                h.returned[i].npc_id = generator_id \o <<"_">> \o ThreeDigits(i)

\* A batch of two requests, one candidate at least discarded between them, was
\* returned by a call that found the module counter above zero.
C20_Witness ==
    \E b \in BatchesReturned :
        /\ history[b].counter_before > 0
        /\ Len(history[b].returned) = 2
        /\ history[b].attempts > 2

\* C26: the sampling loop of generate_batch ends after at most count*10
\* attempts (none when count is not positive), accepted and discarded candidates
\* counted together, also when the pools admit fewer than count combinations.
C26_AttemptsBounded ==
    \A b \in 1..Len(history) :
        LET h == history[b]
        IN  h.fn = "generate_batch" =>
                /\ h.attempts <= (IF h.count > 0 THEN h.count * 10 ELSE 0)
                /\ h.attempts >= Len(h.returned)

\* A batch of two was asked of pools that admit one combination: the loop used
\* all twenty attempts and returned one request.
C26_Witness ==
    \E b \in BatchesReturned :
        /\ Cardinality(Admitted(history[b].generator_config)) < history[b].count
        /\ history[b].count = 2
        /\ history[b].attempts = 20
        /\ Len(history[b].returned) = 1


\* ---- mirror_util

\* C25 (as claimed): direction right rendered on demand from a mirroring
\* template is the buffer rendered from the document expand_template wrote,
\* whatever the lengths of the rows of the left grid.
C25_OnDemandIsMaterialized ==
    (op = "render_expanded" /\ pixels # <<>>) => expanded_pixels = pixels

\* The right frame f is the mirror of the left frame f: as many rows, and
\* every row the reverse of the left row.
ProperMirror(directions, f) ==
    /\ f \in DOMAIN directions["right"]
    /\ Len(directions["right"][f]) = Len(directions["left"][f])
    /\ \A r \in 1..Len(directions["left"][f]) :
           directions["right"][f][r] = reversed(directions["left"][f][r])

\* C30 (as claimed): verify_mirror returns True exactly when the document has
\* left and right and every left frame has its mirror, with the same number of
\* rows, under right; after add_right_direction it returns True for every
\* document with a left direction.
C30_VerifyExactlyMirror ==
    (op = "verify_mirror") =>
        LET directions == get(template, "directions", <<>>)
        IN  /\ verified = (/\ "left" \in DOMAIN directions
                           /\ "right" \in DOMAIN directions
                           /\ \A f \in DOMAIN directions["left"] :
                                  ProperMirror(directions, f))
            /\ (expanded # PyNone /\ "left" \in DOMAIN directions) => verified = TRUE


\* ---- template lookup

\* The documents of the directory in search order, with their position.
FirstDeclaring(dir, id) ==
    LET docs == concat(dir.templates)
        hits == {i \in 1..Len(docs) :
                    "template_id" \in DOMAIN docs[i] /\ docs[i].template_id = id}
    IN  IF hits = {} THEN FileNotFoundError ELSE docs[min(hits)]

\* C22 (as claimed): every lookup function returns the first document, in
\* directory order and then file order, that declares the id asked for, and
\* raises not-found when there is none; so all of them resolve the id alike.
C22_LookupByDeclaredId ==
    \A fn \in DOMAIN lookups : lookups[fn] = FirstDeclaring(base_dir, lookup_id)


\* ---- export_walk_gifs

\* The directions of frames_dict that have at least one frame.
WithFrames == {d \in Directions : frames_of(frames_dict, d) # <<>>}

\* The w x h box of im whose top left corner is (x, y).
crop(im, x, y, w, h) ==
    Image(w, h, [i \in 1..(w * h) |->
                    getpixel(im, x + ((i - 1) % w), y + ((i - 1) \div w))])

\* The cell of a grid frame that shows the direction: down | right over
\* left | up, each cell as large as one upscaled frame, the gap between the
\* columns as wide as the gap between the rows, a label strip above each cell.
GridCell(im, d) ==
    LET cw == canvas[1] * scale
        ch == canvas[2] * scale
        gap == im.w - 2 * cw
        strip == ((im.h - gap) \div 2) - ch
    IN  crop(im, IF d \in {"right", "up"} THEN cw + gap ELSE 0,
                 IF d \in {"left", "up"} THEN im.h - ch ELSE strip, cw, ch)

\* C27 (as claimed): export_walk_gifs writes one loop for each direction that
\* has a frame; it writes the combined grid exactly when all four directions
\* have frames, and the grid then has as many frames as the shortest direction,
\* frame i showing frame i of every direction.
C27_WalkGifs ==
    (op = "export_walk_gifs") =>
        /\ DOMAIN gif \cap Directions = WithFrames
        /\ \A d \in WithFrames : gif[d] # PyNone
        /\ ("all" \in DOMAIN gif) <=> (WithFrames = Directions)
        /\ ("all" \in DOMAIN gif) =>
              /\ Len(gif["all"].frames) = min({Len(frames_dict[d]) : d \in Directions})
              /\ \A i \in 1..Len(gif["all"].frames), d \in Directions :
                     GridCell(gif["all"].frames[i].im.im, d)
                         = resize(FramesAsImages[d][i], scale)


\* ---- layer size and canvas size

\* The two template documents of base_dir: the body, as large as the canvas,
\* and the layer painted over it.
BodyDoc == base_dir.templates[1][1]

TopDoc == base_dir.templates[2][1]

\* The colour the engine that ran gives the key of the document.
DocColour(doc) ==
    IF op = "composite_loadout"
    THEN metz_cell(base_dir.master_palette, doc.directions["down"]["idle"][1][1])
    ELSE IF doc = BodyDoc THEN hex_to_rgba(HexA) ELSE hex_to_rgba(HexB)

\* What the cell (x, y) of the grid of doc paints: its colour, or nothing.
Paints(doc, x, y) ==
    /\ y < Len(doc.directions["down"]["idle"])
    /\ x < Len(doc.directions["down"]["idle"][y + 1])
    /\ doc.directions["down"]["idle"][y + 1][x + 1] # PyInt(0)

\* C28 (as claimed): none of the three renderers raises on a layer whose size
\* is not the canvas size, and every canvas pixel (x, y) shows the cell (x, y)
\* of the top layer when that cell has a colour, else the cell (x, y) of the
\* body, else nothing.
C28_CellsKeepTheirPlace ==
    (op \in {"composite_loadout", "composite_npc", "_build_frames_standalone"}) =>
        /\ raised = ""
        /\ \A d \in Directions :
              /\ Len(frames_dict[d]) = 1
              /\ \A i \in 1..(canvas[1] * canvas[2]) :
                     LET x == (i - 1) % canvas[1]
                         y == (i - 1) \div canvas[1]
                     IN  frames_dict[d][1][i] =
                             IF Paints(TopDoc, x, y) THEN DocColour(TopDoc)
                             ELSE IF Paints(BodyDoc, x, y) THEN DocColour(BodyDoc)
                             ELSE TRANSPARENT


\* ---- _render_npc_standalone and composite_npc

\* Every template and palette the request names is found by both renderers.
AllLayersExist ==
    \A k \in 1..Len(request.layers) :
        /\ ~IsError(load_template(request.layers[k].template, base_dir.templates))
        /\ ~IsError(load_palette(request.layers[k].palette, base_dir.palettes))
        /\ _find_template_local(request.layers[k].template, base_dir) # PyNone
        /\ _find_palette_local(request.layers[k].palette, base_dir) # PyNone

\* C29 (as claimed): for a definition whose templates and palettes all exist
\* the standalone renderer returns, for every direction and frame index, the
\* pixels composite_npc returns.
C29_StandaloneIsComposite ==
    (op = "_render_npc_standalone" /\ AllLayersExist) =>
        LET r == composite_npc(request, base_dir)
        IN  /\ r.raised = ""
            /\ frames_dict = r.frames_dict

\* ---------------------------------------------- batch_export and export_all

\* math.ceil(math.sqrt(n)), n >= 0: counted up from c.
RECURSIVE ceil_sqrt_from(_, _)
ceil_sqrt_from(n, c) == IF c * c >= n THEN c ELSE ceil_sqrt_from(n, c + 1)

\* cols that rounds the square root down.
mega_cols_floor(count) == max({1, ceil_sqrt_from(count + 1, 0) - 1})

\* cols = max(1, math.ceil(math.sqrt(count)))
mega_cols(count) == max({1, ceil_sqrt_from(count, 0)})

\* rows = max(1, math.ceil(count / cols))
mega_rows(count, cols) == max({1, (count + cols - 1) \div cols})

\* _create_mega_sheet(all_sheets, sprite_size, count)
_create_mega_sheet(sheets, sprite_size, count) ==
    IF sheets = <<>>
    THEN PyNone
    ELSE LET single_w == sprite_size[1] * 4
             single_h == sprite_size[2] * 4
             cols == mega_cols(count)
             rows == mega_rows(count, cols)
             blank == image_new(single_w * cols, single_h * rows, <<0, 0, 0, 0>>)
         IN  paste_each(blank,
                        [k \in 1..Len(sheets) |->
                            [im |-> sheets[k],
                             x |-> ((k - 1) % cols) * single_w,
                             y |-> ((k - 1) \div cols) * single_h]],
                        TRUE)

\* json.load on a file that does not hold JSON.
JSONDecodeError == [raised |-> "JSONDecodeError"]

\* A file that does not hold JSON.
Corrupt == [corrupt |-> TRUE]

\* Whether load_template of the retro compositor, which parses every file in
\* scan order until one declares the id, comes to a file that does not parse.
load_template_reads_corrupt(template_id, dirs) ==
    LET docs == concat(dirs)
        hits == {i \in 1..Len(docs) :
                    "template_id" \in DOMAIN docs[i] /\ docs[i].template_id = template_id}
    IN  \E i \in 1..Len(docs) : docs[i] = Corrupt /\ \A j \in hits : i < j

\* _compose_npc_frames(npc_def, base_dir): composite_npc, and on any exception
\* of it _render_npc_standalone, which parses the file named after each
\* template; nothing catches what the standalone renderer raises.
_compose_npc_frames(npc_def, dir) ==
    LET composed ==
            IF \E k \in 1..Len(npc_def.layers) :
                   load_template_reads_corrupt(npc_def.layers[k].template, dir.templates)
            THEN JSONDecodeError
            ELSE composite_npc(npc_def, dir)
    IN  IF composed.raised = ""
        THEN composed
        ELSE IF \E k \in 1..Len(npc_def.layers) :
                    _find_template_local(npc_def.layers[k].template, dir) = Corrupt
             THEN JSONDecodeError
             ELSE _render_npc_standalone(npc_def, dir)

\* Most definitions in a batch.
MaxSheets == 5

PersistBody(id, a, b) == ExportBody(id, <<>>, TRUE, PyStr(a), PyStr(b))

\* bodies/ba.json and bodies/bb.json are two bodies, bodies/bc.json does not
\* parse; no file is named zz.json.
PersistRetroDir ==
    [templates |-> <<<<PersistBody("ba", BaseKey, DarkKey),
                       PersistBody("bb", DarkKey, BaseKey), Corrupt>>, <<>>, <<>>, <<>>>>,
     names |-> <<<<"ba", "bb", "bc">>, <<>>, <<>>, <<>>>>,
     palettes |-> <<ExportPaletteFile>>]

\* The definition generate_batch returns for a body; frameless has an empty
\* frame_order.
PersistNpc(body, frameless) ==
    (IF frameless THEN [animation |-> [frame_order |-> <<>>]] ELSE <<>>)
        @@ [npc_id |-> body, sprite_size |-> <<2, 1>>,
            layers |-> <<[template |-> body, palette |-> "skin", z_order |-> 0]>>]

\* What a batch holds next to the two bodies: a definition whose body file
\* does not parse, one whose body is missing, one that is missing and frameless.
PersistFaults == {PersistNpc("bc", FALSE), PersistNpc("zz", FALSE), PersistNpc("zz", TRUE)}

PersistBatches ==
    UNION {{[generator_id |-> "npc", base_sprite_size |-> <<2, 1>>, npcs |-> npcs] :
               npcs \in SeqsUpTo({PersistNpc("ba", FALSE), PersistNpc("bb", FALSE), fault},
                                 MaxSheets)} :
           fault \in PersistFaults}

PersistLoadouts == ExportLoadouts \cup {[loadout_id |-> "l", body |-> "ghost"]}

InitPersist ==
    /\ op = ""
    /\ \/ base_dir = PersistRetroDir /\ request \in PersistBatches
       \/ base_dir \in ExportMetzDirs /\ request \in PersistLoadouts
    /\ layers = <<>>
    /\ walk_cycle = <<>>
    /\ canvas = <<0, 0>>
    /\ painted = <<>>
    /\ frames_dict = <<>>
    /\ raised = ""
    /\ scale \in Scales
    /\ sheet = PyNone
    /\ gif = PyNone
    /\ doll = <<>>
    /\ stores = {}
    /\ IdleResolve
    /\ IdleRender
    /\ IdleMirror
    /\ IdleBatch
    /\ IdleUtil
    /\ IdleLookup
    /\ IdleMega

\* One pass of the loop of batch_export: the frames of the next definition,
\* its sheet, the upscale, and sheet.save.
BatchExportNpc ==
    /\ op \in {"", "batch_export"}
    /\ "npcs" \in DOMAIN request
    /\ raised = ""
    /\ npc_idx < Len(request.npcs)
    /\ op' = "batch_export"
    /\ npc_idx' = npc_idx + 1
    /\ \E r \in {_compose_npc_frames(request.npcs[npc_idx + 1], base_dir)} :
          /\ raised' = r.raised
          /\ IF r.raised # "" \/ r.frames_dict = <<>>
             THEN UNCHANGED <<all_sheets, saved>>
             ELSE LET images == [d \in DOMAIN r.frames_dict |->
                                    [k \in 1..Len(r.frames_dict[d]) |->
                                        Image(r.canvas[1], r.canvas[2], r.frames_dict[d][k])]]
                  IN  /\ all_sheets' = Append(all_sheets,
                                              _create_spritesheet(images,
                                                                  request.base_sprite_size,
                                                                  scale))
                      /\ saved' = Append(saved, "sheet")
    /\ UNCHANGED <<mega, base_dir, request, layers, walk_cycle, canvas, painted, frames_dict>>
    /\ UNCHANGED <<resolveVars, renderVars, mirrorVars, exportVars, batchVars, utilVars,
                   lookupVars>>

\* batch_export after the loop: the mega-sheet of the sheets saved, then
\* the definitions file.
BatchExportFinish ==
    /\ op \in {"", "batch_export"}
    /\ "npcs" \in DOMAIN request
    /\ raised = ""
    /\ npc_idx = Len(request.npcs)
    /\ op' = "batch_export_done"
    /\ mega' = IF all_sheets # <<>>
               THEN _create_mega_sheet(all_sheets,
                                       <<request.base_sprite_size[1] * scale,
                                         request.base_sprite_size[2] * scale>>,
                                       Len(all_sheets))
               ELSE PyNone
    /\ saved' = saved \o (IF all_sheets # <<>> THEN <<"mega_sheet">> ELSE <<>>)
                      \o <<"definitions">>
    /\ UNCHANGED <<all_sheets, npc_idx, compVars>>
    /\ UNCHANGED <<resolveVars, renderVars, mirrorVars, exportVars, batchVars, utilVars,
                   lookupVars>>

\* export_all: "1. Composite all frames."
ExportAllComposite ==
    /\ op = ""
    /\ "body" \in DOMAIN request
    /\ op' = "export_all_composite"
    /\ \E r \in {composite_loadout(request, base_dir)} : Returned(r)
    /\ UNCHANGED <<base_dir, request, resolveVars, renderVars, mirrorVars>>
    /\ UNCHANGED <<exportVars, batchVars, utilVars, lookupVars, megaVars>>

\* export_all: "2. Raw 1x sprite sheet."
ExportAllSpritesheet ==
    /\ op = "export_all_composite"
    /\ raised = ""
    /\ op' = "export_all_spritesheet"
    /\ sheet' = export_spritesheet(FramesAsImages, 1)
    /\ saved' = Append(saved, "spritesheet")
    /\ UNCHANGED <<scale, gif, doll, stores, all_sheets, mega, npc_idx>>
    /\ UNCHANGED <<resolveVars, renderVars, mirrorVars, compVars, batchVars, utilVars,
                   lookupVars>>

\* export_all: "3. Scaled preview."
ExportAllPreview ==
    /\ op = "export_all_spritesheet"
    /\ op' = "export_all_preview"
    /\ sheet' = export_preview(FramesAsImages, scale)
    /\ saved' = Append(saved, "preview")
    /\ UNCHANGED <<scale, gif, doll, stores, all_sheets, mega, npc_idx>>
    /\ UNCHANGED <<resolveVars, renderVars, mirrorVars, compVars, batchVars, utilVars,
                   lookupVars>>

\* export_all: "4. Walk-cycle GIFs.", one file per entry of the result.
ExportAllGifs ==
    /\ op = "export_all_preview"
    /\ op' = "export_all_gifs"
    /\ \E has_font \in BOOLEAN, folds \in BOOLEAN :
          gif' = export_walk_gifs(FramesAsImages, scale, 8, has_font, folds)
    /\ saved' = saved \o repeat("gif", Cardinality(DOMAIN gif'))
    /\ UNCHANGED <<scale, sheet, doll, stores, all_sheets, mega, npc_idx>>
    /\ UNCHANGED <<resolveVars, renderVars, mirrorVars, compVars, batchVars, utilVars,
                   lookupVars>>

\* export_all: "5. Paper-doll strip."
ExportAllPaperDoll ==
    /\ op = "export_all_gifs"
    /\ op' = "export_all_paper_doll"
    /\ \E has_font \in BOOLEAN :
          doll' = export_paper_doll(request, base_dir, scale, has_font)
    /\ saved' = IF found_templates(<<request.body>> \o get(request, "equipment", <<>>),
                                   base_dir.templates) = <<>>
                THEN saved
                ELSE Append(saved, "paper_doll")
    /\ UNCHANGED <<scale, sheet, gif, stores, all_sheets, mega, npc_idx>>
    /\ UNCHANGED <<resolveVars, renderVars, mirrorVars, compVars, batchVars, utilVars,
                   lookupVars>>

NextPersist ==
    \/ BatchExportNpc
    \/ BatchExportFinish
    \/ ExportAllComposite
    \/ ExportAllSpritesheet
    \/ ExportAllPreview
    \/ ExportAllGifs
    \/ ExportAllPaperDoll

SpecPersist == InitPersist /\ [][NextPersist]_vars

\* ---- the mega-sheet

\* C21: the mega-sheet of count >= 1 sheets is cols cells wide and rows cells
\* high, where cols is the least number whose square reaches count and rows the
\* least number of such rows that holds count cells; sheet idx lies inside the
\* grid, and the cell (idx mod cols, idx div cols) shows that sheet and no other.
C21_MegaGrid ==
    (op = "batch_export_done" /\ all_sheets # <<>>) =>
        LET count == Len(all_sheets)
            single_w == all_sheets[1].w
            single_h == all_sheets[1].h
            cols == mega.w \div single_w
            rows == mega.h \div single_h
        IN  /\ mega.w = cols * single_w
            /\ mega.h = rows * single_h
            /\ cols * cols >= count
            /\ (cols - 1) * (cols - 1) < count
            /\ rows * cols >= count
            /\ (rows - 1) * cols < count
            /\ \A idx \in 0..(count - 1) :
                   /\ idx % cols < cols
                   /\ idx \div cols < rows
                   /\ crop(mega, (idx % cols) * single_w, (idx \div cols) * single_h,
                           single_w, single_h) = all_sheets[idx + 1]

\* A batch of five sheets, not all alike, on a grid of three by two.
C21_Witness ==
    /\ op = "batch_export_done"
    /\ Len(all_sheets) = 5
    /\ all_sheets[5] # all_sheets[1]
    /\ mega.w = 3 * all_sheets[1].w
    /\ mega.h = 2 * all_sheets[1].h

\* ---- what is on disk when an operation ends

\* C23 (as claimed): batch_export and export_all write no file before every
\* item of the operation has been rendered in memory, so an operation that an
\* exception ended has written nothing.
C23_NothingSavedBeforeDone ==
    /\ raised # "" => saved = <<>>
    /\ ("npcs" \in DOMAIN request /\ saved # <<>>) => npc_idx = Len(request.npcs)
    /\ ("body" \in DOMAIN request /\ saved # <<>>) => op = "export_all_paper_doll"

====
